---------------------------- MODULE Spec2Model ----------------------------
(***************************************************************************)
(* A model of the ip-filter reverse proxy (src/main.py, src/config.py).   *)
(*                                                                         *)
(* A Python str is modelled as a sequence of tokens.  A token is either a  *)
(* single character (" ", ",", "/", "a", ...) or an atom standing for a    *)
(* run of characters that the code never looks inside ("1.2.3.4",          *)
(* "ELB-HealthChecker", ...).  str.split, str.strip and str.startswith are *)
(* computed on these sequences.                                            *)
(***************************************************************************)
EXTENDS Integers, Sequences, FiniteSets, TLC

VARIABLES
    config,             \* app.config: the settings, read only after start-up
    pc,                 \* position of handle_request: idle, fetch, origin, done
    request,            \* the request being handled
    client_ip,          \* main.py:111 client_ip
    headers_to_remove,  \* main.py:170/231 headers_to_remove
    fetched,            \* number of APPCONFIG_PROFILES handled by get_ipfilter_config
    ip_filter_rules,    \* config.py:130-132 ips, auth, shared_tokens collected so far
    response,           \* what handle_request returned to the client
    agent_calls,        \* GETs sent to the AppConfig agent for this request
    agent_answer,       \* the agent's answer to the last of them
    origin_calls,       \* requests sent to the origin for this request
    origin_request,     \* what the origin received (method, path, headers)
    origin_status,      \* what the origin answered (0: nothing)
    allowed_before,     \* some earlier request was forwarded to the origin
    agent_docs,         \* the documents the agent served for this request, in order
    stream,             \* the origin's response and the upstream connection it holds
    environ,            \* os.environ at start-up
    looked_up,          \* the outcome of the last call of Environ.get_value
    compared,           \* main.py:196-203 what was done for each shared token
    warnings,           \* how often the process logged each configuration warning
    pool                \* http, the upstream pool of main.py:56

vars == <<config, pc, request, client_ip, headers_to_remove, fetched,
          ip_filter_rules, response, agent_calls, agent_answer, origin_calls,
          origin_request, origin_status, allowed_before, agent_docs, stream,
          environ, looked_up, compared, warnings, pool>>

-----------------------------------------------------------------------------
(* Strings                                                                 *)

\* str.startswith
StartsWith(s, prefix) ==
    /\ Len(prefix) <= Len(s)
    /\ SubSeq(s, 1, Len(prefix)) = prefix

\* position of the first occurrence of token c in s, 0 when there is none
RECURSIVE IndexOf(_, _, _)
IndexOf(s, c, from) ==
    IF from > Len(s) THEN 0
    ELSE IF s[from] = c THEN from
    ELSE IndexOf(s, c, from + 1)

\* str.split(sep): the list of the pieces between the separators; a string
\* with k separators has k + 1 pieces, empty pieces included
RECURSIVE Split(_, _)
Split(s, sep) ==
    LET i == IndexOf(s, sep, 1) IN
    IF i = 0 THEN <<s>>
    ELSE <<SubSeq(s, 1, i - 1)>> \o Split(SubSeq(s, i + 1, Len(s)), sep)

\* str.lstrip / str.rstrip / str.strip
RECURSIVE LStrip(_)
LStrip(s) ==
    IF s # <<>> /\ Head(s) = " " THEN LStrip(Tail(s)) ELSE s

RECURSIVE RStrip(_)
RStrip(s) ==
    IF s # <<>> /\ s[Len(s)] = " " THEN RStrip(SubSeq(s, 1, Len(s) - 1)) ELSE s

Strip(s) == RStrip(LStrip(s))

\* str.lower on one token
LowerToken(c) ==
    CASE c = "X-Forwarded-For" -> "x-forwarded-for"
      [] c = "User-Agent"      -> "user-agent"
      [] c = "Authorization"   -> "authorization"
      [] c = "Connection"      -> "connection"
      [] c = "X-CDN-Secret"    -> "x-cdn-secret"
      [] c = "X-Shared-Secret" -> "x-shared-secret"
      [] c = "Accept"          -> "accept"
      [] c = "Content-Length"    -> "content-length"
      [] c = "Transfer-Encoding" -> "transfer-encoding"
      [] c = "Chunked"           -> "chunked"
      [] c = "Location"          -> "location"
      [] c = "True"              -> "true"
      [] c = "TRUE"              -> "true"
      [] c = "False"             -> "false"
      [] OTHER                 -> c

\* str.lower
Lower(s) == [i \in DOMAIN s |-> LowerToken(s[i])]

\* str.upper on one token
UpperToken(c) ==
    CASE c = "staging" -> "STAGING"
      [] c = "Staging" -> "STAGING"
      [] c = "prod"    -> "PROD"
      [] OTHER         -> c

\* str.upper
Upper(s) == [i \in DOMAIN s |-> UpperToken(s[i])]

\* the code point of a one-character token
Ord(c) ==
    CASE c = "a" -> 97
      [] c = "b" -> 98
      [] c = "c" -> 99
      [] c = "e" -> 101
      [] OTHER   -> 63

\* str.encode(): UTF-8, one byte below 128 and two bytes below 2048
RECURSIVE Encode(_)
Encode(s) ==
    IF s = <<>> THEN <<>>
    ELSE LET c == Ord(Head(s)) IN
         (IF c < 128 THEN <<c>> ELSE <<192 + (c \div 64), 128 + (c % 64)>>)
         \o Encode(Tail(s))

-----------------------------------------------------------------------------
(* bytes                                                                   *)

\* The bytes of a body are modelled run-length encoded: a sequence of runs
\* [b |-> byte, n |-> count], every count positive and no two neighbouring runs
\* of the same byte, so that equal byte strings are equal sequences.
Run(b, n) == [b |-> b, n |-> n]

\* len(bytes)
RECURSIVE BytesLen(_)
BytesLen(s) == IF s = <<>> THEN 0 ELSE Head(s).n + BytesLen(Tail(s))

\* bytes[:k]
RECURSIVE Take(_, _)
Take(s, k) ==
    IF k <= 0 \/ s = <<>> THEN <<>>
    ELSE IF Head(s).n <= k THEN <<Head(s)>> \o Take(Tail(s), k - Head(s).n)
    ELSE <<Run(Head(s).b, k)>>

\* bytes[k:]
RECURSIVE Drop(_, _)
Drop(s, k) ==
    IF k <= 0 \/ s = <<>> THEN s
    ELSE IF Head(s).n <= k THEN Drop(Tail(s), k - Head(s).n)
    ELSE <<Run(Head(s).b, Head(s).n - k)>> \o Tail(s)

\* a + b
Cat(a, b) ==
    IF a = <<>> THEN b
    ELSE IF b = <<>> THEN a
    ELSE IF a[Len(a)].b = Head(b).b
    THEN SubSeq(a, 1, Len(a) - 1) \o <<Run(Head(b).b, a[Len(a)].n + Head(b).n)>> \o Tail(b)
    ELSE a \o b

\* b"".join(chunks)
RECURSIVE Join(_)
Join(chunks) == IF chunks = <<>> THEN <<>> ELSE Cat(Head(chunks), Join(Tail(chunks)))

Min(x, y) == IF x <= y THEN x ELSE y

-----------------------------------------------------------------------------
(* utils.py                                                                *)

\* x ^ y on bytes
RECURSIVE Xor(_, _)
Xor(x, y) ==
    IF x = 0 /\ y = 0 THEN 0
    ELSE (IF (x % 2) = (y % 2) THEN 0 ELSE 1) + 2 * Xor(x \div 2, y \div 2)

\* x | y on bytes
RECURSIVE BitOr(_, _)
BitOr(x, y) ==
    IF x = 0 /\ y = 0 THEN 0
    ELSE (IF (x % 2) = 1 \/ (y % 2) = 1 THEN 1 ELSE 0) + 2 * BitOr(x \div 2, y \div 2)

\* the loop of constant_time_is_equal: result |= x ^ y over zip(a, b)
RECURSIVE XorFold(_, _, _)
XorFold(a, b, result) ==
    IF a = <<>> \/ b = <<>> THEN result
    ELSE XorFold(Tail(a), Tail(b), BitOr(result, Xor(Head(a), Head(b))))

\* a variant of constant_time_is_equal without the test of the lengths: zip
\* stops at the end of the shorter argument
constant_time_is_equal_NoLengthCheck(a, b) == XorFold(a, b, 0) = 0

constant_time_is_equal(a, b) ==
    IF Len(a) # Len(b) THEN FALSE
    ELSE XorFold(a, b, 0) = 0

\* the turns of the loop of lines 16-17, one for each pair of zip(a, b)
RECURSIVE XorFoldTurns(_, _)
XorFoldTurns(a, b) ==
    IF a = <<>> \/ b = <<>> THEN 0 ELSE 1 + XorFoldTurns(Tail(a), Tail(b))

\* the byte positions one call of constant_time_is_equal combines: none when
\* the lengths differ (line 13 returns), one for every turn of the loop otherwise
BytesCombined(a, b) == IF Len(a) # Len(b) THEN 0 ELSE XorFoldTurns(a, b)

-----------------------------------------------------------------------------
(* ipaddress                                                               *)

\* the value of a token that is a dotted IPv4 address, -1 for any other token
AddressLiteral(c) ==
    CASE c = "1.2.3.4" -> 16909060
      [] c = "1.1.1.1" -> 16843009
      [] c = "1.1.1.2" -> 16843010
      [] OTHER         -> -1

\* <<address, prefix length>> of a token of the form address/length,
\* <<-1, -1>> for any other token
NetworkLiteral(c) ==
    CASE c = "1.2.3.4/32" -> <<16909060, 32>>
      [] c = "1.1.1.0/31" -> <<16843008, 31>>
      [] c = "1.1.1.1/16" -> <<16843009, 16>>
      [] c = "1.1.1.1/32" -> <<16843009, 32>>
      [] OTHER            -> <<-1, -1>>

RECURSIVE Pow2(_)
Pow2(n) == IF n = 0 THEN 1 ELSE 2 * Pow2(n - 1)

\* ipaddress.ip_address(s): the address, or -1 where it raises ValueError
ip_address(s) ==
    IF Len(s) = 1 THEN AddressLiteral(s[1]) ELSE -1

\* a variant of ip_network that accepts a network with host bits set
ip_network_NotStrict(s) ==
    IF Len(s) # 1 THEN <<-1, -1>>
    ELSE IF AddressLiteral(s[1]) # -1 THEN <<AddressLiteral(s[1]), 32>>
    ELSE NetworkLiteral(s[1])

\* ipaddress.ip_network(s) (strict): <<network address, prefix length>>, or
\* <<-1, -1>> where it raises ValueError (not a network, or host bits set)
ip_network(s) ==
    IF Len(s) # 1 THEN <<-1, -1>>
    ELSE IF AddressLiteral(s[1]) # -1 THEN <<AddressLiteral(s[1]), 32>>
    ELSE LET n == NetworkLiteral(s[1]) IN
         IF n[1] # -1 /\ n[1] % Pow2(32 - n[2]) = 0 THEN n ELSE <<-1, -1>>

\* address in network
InNetwork(address, network) ==
    address \div Pow2(32 - network[2]) = network[1] \div Pow2(32 - network[2])

\* any(ip_address(client_ip) in ip_network(ip_range) for ip_range in ranges):
\* "true", "false", or "raise" when a conversion raises before a match is found
RECURSIVE AnyInNetworks(_, _)
AnyInNetworks(ip, ranges) ==
    IF ranges = <<>> THEN "false"
    ELSE IF ip_address(ip) = -1 THEN "raise"
    ELSE IF ip_network(Head(ranges)) = <<-1, -1>> THEN "raise"
    ELSE IF InNetwork(ip_address(ip), ip_network(Head(ranges))) THEN "true"
    ELSE AnyInNetworks(ip, Tail(ranges))

\* x in a Python list
InList(x, list) == \E i \in 1..Len(list) : list[i] = x

-----------------------------------------------------------------------------
(* werkzeug request                                                        *)

\* index of the first header named name (case-insensitively), 0 when absent
RECURSIVE HeaderIndex(_, _, _)
HeaderIndex(headers, name, from) ==
    IF from > Len(headers) THEN 0
    ELSE IF Lower(headers[from][1]) = Lower(name) THEN from
    ELSE HeaderIndex(headers, name, from + 1)

\* name in request.headers
HasHeader(headers, name) == HeaderIndex(headers, name, 1) # 0

\* request.headers.get(name, "")
HeaderGet(headers, name) ==
    IF HasHeader(headers, name) THEN headers[HeaderIndex(headers, name, 1)][2]
    ELSE <<>>

\* request.authorization: the Basic credentials of the Authorization header,
\* none when the header is absent or is not "Basic user:password"
Authorization(headers) ==
    LET v == HeaderGet(headers, <<"Authorization">>)
        colon == IndexOf(v, ":", 1)
    IN  IF HasHeader(headers, <<"Authorization">>) /\ v # <<>> /\ Head(v) = "Basic"
           /\ colon # 0
        THEN [given |-> TRUE,
              username |-> SubSeq(v, 2, colon - 1),
              password |-> SubSeq(v, colon + 1, Len(v))]
        ELSE [given |-> FALSE, username |-> <<>>, password |-> <<>>]

-----------------------------------------------------------------------------
(* config.py: the AppConfig documents                                      *)

\* A YAML scalar: its type and its text.
YamlStr(s) == [t |-> "str", v |-> s]
YamlInt(s) == [t |-> "int", v |-> s]
YamlMissing == [t |-> "missing", v |-> <<>>]

\* APPCONFIG_SCHEMA.validate(config): a document is a mapping (keys: the
\* sections it holds); IpRanges entries must convert with ip_network, the
\* BasicAuth and SharedTokens entries must hold str under each of their keys;
\* any other top-level key is accepted.
SchemaValid(doc) ==
    /\ doc.mapping
    /\ "IpRanges" \in doc.keys =>
          \A i \in 1..Len(doc.IpRanges) : ip_network(doc.IpRanges[i]) # <<-1, -1>>
    /\ "BasicAuth" \in doc.keys =>
          \A i \in 1..Len(doc.BasicAuth) :
              /\ doc.BasicAuth[i].Path.t = "str"
              /\ doc.BasicAuth[i].Username.t = "str"
              /\ doc.BasicAuth[i].Password.t = "str"
    /\ "SharedTokens" \in doc.keys =>
          \A i \in 1..Len(doc.SharedTokens) :
              /\ doc.SharedTokens[i].HeaderName.t = "str"
              /\ doc.SharedTokens[i].Value.t = "str"

\* the first BasicAuth entry that does not hold a str under each of its keys,
\* 0 when there is none
RECURSIVE FirstBadAuth(_, _)
FirstBadAuth(entries, from) ==
    IF from > Len(entries) THEN 0
    ELSE IF \E k \in {"Path", "Username", "Password"} : entries[from][k].t # "str"
    THEN from
    ELSE FirstBadAuth(entries, from + 1)

\* str(SchemaError) as far as it names keys: the section, and for a BasicAuth
\* entry the key that is missing or holds no str. (A document of the model has
\* at most one offending section, and an offending entry one offending key.)
SchemaErrorText(doc) ==
    IF ~doc.mapping THEN <<"should be instance of 'dict'">>
    ELSE IF /\ "IpRanges" \in doc.keys
            /\ \E i \in 1..Len(doc.IpRanges) : ip_network(doc.IpRanges[i]) = <<-1, -1>>
    THEN <<"Key '", "IpRanges", "' error:", "ip_network raised ValueError">>
    ELSE IF "BasicAuth" \in doc.keys /\ FirstBadAuth(doc.BasicAuth, 1) # 0
    THEN LET entry == doc.BasicAuth[FirstBadAuth(doc.BasicAuth, 1)]
             key == CHOOSE k \in {"Path", "Username", "Password"} : entry[k].t # "str"
         IN  <<"Key '", "BasicAuth", "' error:">> \o
             (IF entry[key].t = "missing" THEN <<"Missing key: '", key, "'">>
              ELSE <<"Key '", key, "' error:", "should be instance of 'str'">>)
    ELSE <<"Key '", "SharedTokens", "' error:">>

\* config.get(section, [])
Section(doc, section) ==
    IF section \in doc.keys THEN doc[section] ELSE <<>>

\* a variant of ExtendRules that puts the document's entries first
ExtendRules_Prepend(rules, doc) ==
    [ips           |-> Section(doc, "IpRanges") \o rules.ips,
     auth          |-> Section(doc, "BasicAuth") \o rules.auth,
     shared_tokens |-> Section(doc, "SharedTokens") \o rules.shared_tokens]

\* the body of the loop of get_ipfilter_config after a valid document
ExtendRules(rules, doc) ==
    [ips           |-> rules.ips \o Section(doc, "IpRanges"),
     auth          |-> rules.auth \o Section(doc, "BasicAuth"),
     shared_tokens |-> rules.shared_tokens \o Section(doc, "SharedTokens")]

\* ips = [], auth = [], shared_tokens = []
NoRules == [ips |-> <<>>, auth |-> <<>>, shared_tokens |-> <<>>]

\* application, environment, configuration = appconfig_path.split(":")
WellFormedPath(appconfig_path) == Len(Split(appconfig_path, ":")) = 3

-----------------------------------------------------------------------------
(* config.py: Environ, and settings.py                                     *)

\* str(n) for a small integer, as one token
DecimalText(n) ==
    CASE n = 0 -> "0"   [] n = 1 -> "1"   [] n = 2 -> "2"   [] n = 3 -> "3"
      [] n = 4 -> "4"   [] n = 5 -> "5"   [] n = 6 -> "6"   [] n = 7 -> "7"
      [] n = -1 -> "-1" [] n = -2 -> "-2" [] n = -3 -> "-3" [] n = -4 -> "-4"
      [] n = -5 -> "-5" [] n = -6 -> "-6" [] n = -7 -> "-7"
      [] OTHER -> "?"

\* Python values: a str, a list of str, a bool, an int, None. Each is held as
\* its type and a list of texts: the text of a str, the elements of a list,
\* the repr of a bool or an int.
PyStr(s)   == [t |-> "str", v |-> <<s>>]
PyList(l)  == [t |-> "list", v |-> l]
PyBool(b)  == [t |-> "bool", v |-> <<IF b THEN <<"True">> ELSE <<"False">>>>]
PyInt(n)   == [t |-> "int", v |-> <<<<DecimalText(n)>>>>]
PyNone     == [t |-> "none", v |-> <<>>]

StrOf(value)  == value.v[1]
BoolOf(value) == value.v[1] = <<"True">>
IntOf(value)  == CHOOSE n \in -7..7 : DecimalText(n) = value.v[1][1]

\* the outcome of a call: the value returned, or the exception raised
Returned(value) == [raised |-> "", value |-> value]
Raised(exception) == [raised |-> exception, value |-> PyNone]

\* os.environ is a function from the names that are set to their text
EnvKey(name) == <<name>>

\* f"{environment.upper()}_{key}", lines 17-19
overridden_key(data, key) ==
    Upper(Upper(data[EnvKey("COPILOT_ENVIRONMENT_NAME")])) \o <<"_">> \o key

\* a variant of get_value in which an empty override does not count as set
get_value_EmptyNotSet(data, key, default, allow_environment_override) ==
    IF /\ allow_environment_override
       /\ overridden_key(data, key) \in DOMAIN data
       /\ data[overridden_key(data, key)] # <<>>
    THEN Returned(PyStr(data[overridden_key(data, key)]))
    ELSE IF key \in DOMAIN data THEN Returned(PyStr(data[key]))
    ELSE IF default.t # "none" THEN Returned(default)
    ELSE Raised("KeyError")

\* Environ.get_value, lines 16-30
get_value(data, key, default, allow_environment_override) ==
    IF allow_environment_override /\ overridden_key(data, key) \in DOMAIN data
    THEN Returned(PyStr(data[overridden_key(data, key)]))
    ELSE IF key \in DOMAIN data THEN Returned(PyStr(data[key]))
    ELSE IF default.t # "none" THEN Returned(default)
    ELSE Raised("KeyError")

\* int(c) for a token: its value when it is a decimal integer literal,
\* ValueError for any other token
IntLiteral(c) ==
    IF \E n \in -7..7 : DecimalText(n) = c
    THEN Returned(PyInt(CHOOSE n \in -7..7 : DecimalText(n) = c))
    ELSE Raised("ValueError")

\* Environ.int, lines 32-39
env_int(data, key, default, allow_environment_override) ==
    LET got == get_value(data, key, default, allow_environment_override) IN
    IF got.raised # "" THEN got
    ELSE IF got.value.t = "int" THEN got
    ELSE IF got.value.t = "str" /\ Len(Strip(StrOf(got.value))) = 1
    THEN IntLiteral(Strip(StrOf(got.value))[1])
    ELSE Raised("ValueError")

\* [v.strip() for v in value.split(",")]
StripAll(pieces) == [i \in DOMAIN pieces |-> Strip(pieces[i])]

\* Environ.list, lines 41-52
env_list(data, key, default, allow_environment_override) ==
    LET got == get_value(data, key, default, allow_environment_override) IN
    IF got.raised # "" THEN got
    ELSE IF got.value.t # "str" THEN got
    ELSE IF StrOf(got.value) = <<>> THEN Returned(PyList(<<>>))
    ELSE Returned(PyList(StripAll(Split(StrOf(got.value), ","))))

\* a variant of Environ.bool that accepts the texts true and false only
env_bool_Strict(data, key, default, allow_environment_override) ==
    LET got == get_value(data, key, default, allow_environment_override) IN
    IF got.raised # "" THEN got
    ELSE IF got.value.t = "str"
    THEN IF Lower(Strip(StrOf(got.value))) \in {<<"true">>, <<"false">>}
         THEN Returned(PyBool(Lower(Strip(StrOf(got.value))) = <<"true">>))
         ELSE Raised("ValueError")
    ELSE got

\* Environ.bool, lines 54-62
env_bool(data, key, default, allow_environment_override) ==
    LET got == get_value(data, key, default, allow_environment_override) IN
    IF got.raised # "" THEN got
    ELSE IF got.value.t = "str"
    THEN Returned(PyBool(Lower(Strip(StrOf(got.value))) = <<"true">>))
    ELSE got

\* a host name is a single token; the settings hold it as that token
HostNames(list) == [i \in DOMAIN list |-> list[i][1]]

\* env.get(key, default): Environ inherits get from its mapping base, which
\* does not call get_value
env_get(data, key, default) ==
    IF key \in DOMAIN data THEN Returned(PyStr(data[key])) ELSE Returned(default)

\* env[key]
env_item(data, key) ==
    IF key \in DOMAIN data THEN Returned(PyStr(data[key])) ELSE Raised("KeyError")

\* the exception of the first of the outcomes that raised, "" when none did
RECURSIVE FirstRaised(_)
FirstRaised(outcomes) ==
    IF outcomes = <<>> THEN ""
    ELSE IF Head(outcomes).raised # "" THEN Head(outcomes).raised
    ELSE FirstRaised(Tail(outcomes))

\* a variant of settings in which every key may be overridden per environment
settings_AllOverridable(data) ==
    IF EnvKey("COPILOT_ENVIRONMENT_NAME") \notin DOMAIN data THEN Raised("KeyError")
    ELSE
    LET debug      == env_bool(data, <<"DEBUG">>, PyBool(FALSE), TRUE)
        proto      == get_value(data, <<"SERVER_PROTO">>, PyStr(<<"http">>), TRUE)
        server     == env_item(data, <<"SERVER">>)
        email      == env_item(data, <<"EMAIL">>)
        index      == env_int(data, <<"IP_DETERMINED_BY_X_FORWARDED_FOR_INDEX">>,
                              PyInt(-2), TRUE)
        enabled    == env_bool(data, <<"IPFILTER_ENABLED">>, PyBool(TRUE), TRUE)
        profiles   == env_list(data, <<"APPCONFIG_PROFILES">>, PyList(<<>>), TRUE)
        public     == env_list(data, <<"PUBLIC_PATHS">>, PyList(<<>>), TRUE)
        protected  == env_list(data, <<"PROTECTED_PATHS">>, PyList(<<>>), TRUE)
        pub        == env_list(data, <<"PUB_HOST_LIST">>, PyList(<<>>), TRUE)
        priv       == env_list(data, <<"PRIV_HOST_LIST">>, PyList(<<>>), TRUE)
        additional == env_list(data, <<"ADDITIONAL_IP_LIST">>, PyList(<<>>), TRUE)
        raised     == FirstRaised(<<debug, proto, server, email, index, enabled,
                                    profiles, public, protected, pub, priv,
                                    additional>>)
    IN  IF raised # "" THEN Raised(raised)
        ELSE Returned(
            [DEBUG              |-> BoolOf(debug.value),
             SERVER_PROTO       |-> StrOf(proto.value),
             SERVER             |-> StrOf(server.value),
             EMAIL              |-> StrOf(email.value),
             IPFILTER_ENABLED   |-> BoolOf(enabled.value),
             APPCONFIG_PROFILES |-> profiles.value.v,
             PUBLIC_PATHS       |-> public.value.v,
             PROTECTED_PATHS    |-> protected.value.v,
             PUB_HOST_LIST      |-> HostNames(pub.value.v),
             PRIV_HOST_LIST     |-> HostNames(priv.value.v),
             ADDITIONAL_IP_LIST |-> additional.value.v,
             IP_DETERMINED_BY_X_FORWARDED_FOR_INDEX |-> IntOf(index.value)])

\* settings.py, lines 17-60, in the order of the statements: the settings
\* handle_request reads, or the first exception, which ends the start-up.
\* The first call of get_value raises KeyError when COPILOT_ENVIRONMENT_NAME
\* is not set (config.py line 17).
settings(data) ==
    IF EnvKey("COPILOT_ENVIRONMENT_NAME") \notin DOMAIN data THEN Raised("KeyError")
    ELSE
    LET debug      == env_bool(data, <<"DEBUG">>, PyBool(FALSE), FALSE)
        proto      == env_get(data, <<"SERVER_PROTO">>, PyStr(<<"http">>))
        server     == env_item(data, <<"SERVER">>)
        email      == env_item(data, <<"EMAIL">>)
        index      == env_int(data, <<"IP_DETERMINED_BY_X_FORWARDED_FOR_INDEX">>,
                              PyInt(-2), FALSE)
        enabled    == env_bool(data, <<"IPFILTER_ENABLED">>, PyBool(TRUE), TRUE)
        profiles   == env_list(data, <<"APPCONFIG_PROFILES">>, PyList(<<>>), TRUE)
        public     == env_list(data, <<"PUBLIC_PATHS">>, PyList(<<>>), TRUE)
        protected  == env_list(data, <<"PROTECTED_PATHS">>, PyList(<<>>), TRUE)
        pub        == env_list(data, <<"PUB_HOST_LIST">>, PyList(<<>>), TRUE)
        priv       == env_list(data, <<"PRIV_HOST_LIST">>, PyList(<<>>), TRUE)
        additional == env_list(data, <<"ADDITIONAL_IP_LIST">>, PyList(<<>>), TRUE)
        raised     == FirstRaised(<<debug, proto, server, email, index, enabled,
                                    profiles, public, protected, pub, priv,
                                    additional>>)
    IN  IF raised # "" THEN Raised(raised)
        ELSE Returned(
            [DEBUG              |-> BoolOf(debug.value),
             SERVER_PROTO       |-> StrOf(proto.value),
             SERVER             |-> StrOf(server.value),
             EMAIL              |-> StrOf(email.value),
             IPFILTER_ENABLED   |-> BoolOf(enabled.value),
             APPCONFIG_PROFILES |-> profiles.value.v,
             PUBLIC_PATHS       |-> public.value.v,
             PROTECTED_PATHS    |-> protected.value.v,
             PUB_HOST_LIST      |-> HostNames(pub.value.v),
             PRIV_HOST_LIST     |-> HostNames(priv.value.v),
             ADDITIONAL_IP_LIST |-> additional.value.v,
             IP_DETERMINED_BY_X_FORWARDED_FOR_INDEX |-> IntOf(index.value)])

-----------------------------------------------------------------------------
(* main.py: responses                                                      *)

NoResponse ==
    [status |-> 0, page |-> "", client_ip |-> <<>>, forwarded_url |-> <<>>,
     reason |-> <<>>, headers |-> <<>>]

\* render_access_denied(client_ip, forwarded_url, request_id, reason)
render_access_denied(ip, forwarded_url, reason) ==
    [status |-> 403, page |-> "access-denied.html", client_ip |-> ip,
     forwarded_url |-> forwarded_url, reason |-> reason, headers |-> <<>>]

\* return "OK" / return "ok": a 200 with that body
Plain(body) ==
    [status |-> 200, page |-> body, client_ip |-> <<>>, forwarded_url |-> <<>>,
     reason |-> <<>>, headers |-> <<>>]

\* Response("Could not verify ...", 401, {"WWW-Authenticate": ...})
LoginRequired ==
    [status |-> 401, page |-> "Could not verify your access level",
     client_ip |-> <<>>, forwarded_url |-> <<>>, reason |-> <<>>,
     headers |-> << <<<<"WWW-Authenticate">>, <<"Basic realm=\"Login Required\"">>>> >>]

\* what Flask answers when handle_request raises
InternalServerError ==
    [status |-> 500, page |-> "Internal Server Error", client_ip |-> <<>>,
     forwarded_url |-> <<>>, reason |-> <<>>, headers |-> <<>>]

\* the elements of a list of headers that pass a test on the lowercased name
RECURSIVE HeadersExcept(_, _)
HeadersExcept(headers, removed) ==
    IF headers = <<>> THEN <<>>
    ELSE (IF Lower(Head(headers)[1]) \in removed THEN <<>> ELSE <<Head(headers)>>)
         \o HeadersExcept(Tail(headers), removed)

\* a variant of Downstream that answers 200 whatever the origin's status
Downstream_Status200(status, headers) ==
    [status |-> 200, page |-> "origin", client_ip |-> <<>>,
     forwarded_url |-> <<>>, reason |-> <<>>,
     headers |-> HeadersExcept(headers, {<<"connection">>})]

\* Response(origin_response.stream(...), status=..., headers=[... != "connection"])
Downstream(status, headers) ==
    [status |-> status, page |-> "origin", client_ip |-> <<>>,
     forwarded_url |-> <<>>, reason |-> <<>>,
     headers |-> HeadersExcept(headers, {<<"connection">>})]

-----------------------------------------------------------------------------
(* main.py: handle_request, lines 122-168                                  *)

\* any(request.path.startswith(path) for path in paths)
AnyStartsWith(path, paths) ==
    \E i \in 1..Len(paths) : StartsWith(path, paths[i])

\* a variant of protected_paths that leaves out the conflict resolution
protected_paths_Kept(cfg) == cfg.PROTECTED_PATHS

\* lines 125-132: PROTECTED_PATHS is ignored when PUBLIC_PATHS is set too
protected_paths(cfg) ==
    IF cfg.PUBLIC_PATHS # <<>> /\ cfg.PROTECTED_PATHS # <<>> THEN <<>>
    ELSE cfg.PROTECTED_PATHS

\* a variant of priv_host_list that leaves out the conflict resolution
priv_host_list_Kept(cfg) == cfg.PRIV_HOST_LIST

\* lines 137-141: PRIV_HOST_LIST is ignored when PUB_HOST_LIST is set too
priv_host_list(cfg) ==
    IF cfg.PRIV_HOST_LIST # <<>> /\ cfg.PUB_HOST_LIST # <<>> THEN <<>>
    ELSE cfg.PRIV_HOST_LIST

\* lines 143-168: the final value of ip_filter_enabled_and_required_for_path
ip_filter_enabled_and_required_for_path(cfg, req) ==
    LET protected == protected_paths(cfg)
        public    == cfg.PUBLIC_PATHS
        priv      == priv_host_list(cfg)
        pub       == cfg.PUB_HOST_LIST
    IN  /\ cfg.IPFILTER_ENABLED
        /\ ~(protected # <<>> /\ ~AnyStartsWith(req.path, protected))
        /\ ~(public # <<>> /\ AnyStartsWith(req.path, public))
        /\ ~(priv # <<>> /\ ~InList(req.host, priv))
        /\ ~(/\ pub # <<>>
             /\ InList(req.host, pub)
             /\ (protected = <<>> \/ ~AnyStartsWith(req.path, protected)))

-----------------------------------------------------------------------------
(* main.py: handle_request, lines 182-271                                  *)

\* lines 183-193
ip_in_whitelist(cfg, rules, ip) ==
    LET in_rules == AnyInNetworks(ip, rules.ips) IN
    IF in_rules # "false" THEN in_rules
    ELSE IF InList(ip, cfg.ADDITIONAL_IP_LIST) THEN "true"
    ELSE AnyInNetworks(ip, cfg.ADDITIONAL_IP_LIST)

\* lines 196-203: one element of shared_token_ok
shared_token_ok(req, shared_token) ==
    /\ HasHeader(req.headers, shared_token.HeaderName.v)
    /\ constant_time_is_equal(
           Encode(shared_token.Value.v),
           Encode(HeaderGet(req.headers, shared_token.HeaderName.v)))

\* lines 196-203: what the comprehension does for one shared token; the
\* comparison is called when the header is on the request
shared_token_comparison(req, shared_token) ==
    LET present == HasHeader(req.headers, shared_token.HeaderName.v) IN
    [called   |-> present,
     combined |-> IF present
                  THEN BytesCombined(
                           Encode(shared_token.Value.v),
                           Encode(HeaderGet(req.headers, shared_token.HeaderName.v)))
                  ELSE 0,
     ok       |-> shared_token_ok(req, shared_token)]

\* lines 196-203: the comprehension, one element for each shared token
shared_token_comparisons(req, shared_tokens) ==
    [i \in 1..Len(shared_tokens) |-> shared_token_comparison(req, shared_tokens[i])]

\* lines 205-216
verify_credentials(req, app_auth) ==
    /\ Authorization(req.headers).given
    /\ constant_time_is_equal(
           Encode(app_auth.Username.v), Encode(Authorization(req.headers).username))
    /\ constant_time_is_equal(
           Encode(app_auth.Password.v), Encode(Authorization(req.headers).password))

\* a variant of on_auth_path_and_ok that matches Path as a prefix
RECURSIVE on_auth_path_and_ok_Prefix(_, _)
on_auth_path_and_ok_Prefix(req, basic_auths) ==
    IF basic_auths = <<>> THEN <<>>
    ELSE (IF StartsWith(req.path, Head(basic_auths).Path.v)
          THEN <<verify_credentials(req, Head(basic_auths))>> ELSE <<>>)
         \o on_auth_path_and_ok_Prefix(req, Tail(basic_auths))

\* lines 224-227: the basic_auths_ok of the entries whose Path is the request path
RECURSIVE on_auth_path_and_ok(_, _)
on_auth_path_and_ok(req, basic_auths) ==
    IF basic_auths = <<>> THEN <<>>
    ELSE (IF Head(basic_auths).Path.v = req.path
          THEN <<verify_credentials(req, Head(basic_auths))>> ELSE <<>>)
         \o on_auth_path_and_ok(req, Tail(basic_auths))

\* any(list of booleans)
AnyTrue(list) == \E i \in 1..Len(list) : list[i]

\* lines 231-233
HeadersToRemove(rules) ==
    {Lower(rules.shared_tokens[i].HeaderName.v) : i \in 1..Len(rules.shared_tokens)}
        \cup {<<"connection">>}

\* line 235
shared_token_checks_passed(req, rules) ==
    \/ rules.shared_tokens = <<>>
    \/ \E i \in 1..Len(rules.shared_tokens) : shared_token_ok(req, rules.shared_tokens[i])

\* lines 238-243
should_request_auth(req, rules, in_whitelist) ==
    LET on_path == on_auth_path_and_ok(req, rules.auth) IN
    /\ ~AnyTrue(on_path)
    /\ in_whitelist
    /\ shared_token_checks_passed(req, rules)
    /\ Len(on_path) # 0
    /\ \A i \in 1..Len(on_path) : ~on_path[i]

\* a variant of should_respond_ok_to_auth_request that wants every entry on the
\* path to match
should_respond_ok_to_auth_request_AllOnPath(req, rules, in_whitelist) ==
    LET on_path == on_auth_path_and_ok(req, rules.auth) IN
    /\ \A i \in 1..Len(on_path) : on_path[i]
    /\ in_whitelist
    /\ shared_token_checks_passed(req, rules)
    /\ Len(on_path) # 0

\* lines 245-250
should_respond_ok_to_auth_request(req, rules, in_whitelist) ==
    LET on_path == on_auth_path_and_ok(req, rules.auth) IN
    /\ AnyTrue(on_path)
    /\ in_whitelist
    /\ shared_token_checks_passed(req, rules)
    /\ Len(on_path) # 0

\* line 263
basic_auth_checks_passed(req, rules) ==
    \/ rules.auth = <<>>
    \/ \E i \in 1..Len(rules.auth) : verify_credentials(req, rules.auth[i])

\* lines 265-267
all_checks_passed(req, rules, in_whitelist) ==
    /\ in_whitelist
    /\ shared_token_checks_passed(req, rules)
    /\ basic_auth_checks_passed(req, rules)

\* lines 182-271: "raise" (ip_address or ip_network raised), "401", "ok",
\* "403" or "proxy"
Verdict(cfg, req, rules, ip) ==
    LET w == ip_in_whitelist(cfg, rules, ip) IN
    IF w = "raise" THEN "raise"
    ELSE IF should_request_auth(req, rules, w = "true") THEN "401"
    ELSE IF should_respond_ok_to_auth_request(req, rules, w = "true") THEN "ok"
    ELSE IF ~all_checks_passed(req, rules, w = "true") THEN "403"
    ELSE "proxy"

-----------------------------------------------------------------------------
(* main.py: handle_request, lines 100-120                                  *)

\* a variant of PyIndex without negative indices
PyIndex_NoNegative(list, index) ==
    IF 0 <= index /\ index < Len(list) THEN <<list[index + 1]>> ELSE <<>>

\* list[index] with Python's indexing: the list of the one element selected,
\* or the empty list where list[index] raises IndexError
PyIndex(list, index) ==
    IF 0 <= index /\ index < Len(list) THEN <<list[index + 1]>>
    ELSE IF index < 0 /\ -Len(list) <= index THEN <<list[Len(list) + index + 1]>>
    ELSE <<>>

\* a variant of Classify that answers "OK" to any request without
\* X-Forwarded-For, whatever its user agent
Classify_HealthForAnyAgent(cfg, req) ==
    IF ~HasHeader(req.headers, <<"X-Forwarded-For">>) THEN "health"
    ELSE IF PyIndex(Split(HeaderGet(req.headers, <<"X-Forwarded-For">>), ","),
                    cfg.IP_DETERMINED_BY_X_FORWARDED_FOR_INDEX) = <<>>
         THEN "malformed"
    ELSE IF ip_filter_enabled_and_required_for_path(cfg, req) THEN "enforce"
    ELSE "bypass"

\* a variant of Classify without the health check of lines 104-105
Classify_NoHealthCheck(cfg, req) ==
    IF ~HasHeader(req.headers, <<"X-Forwarded-For">>) THEN "malformed"
    ELSE IF PyIndex(Split(HeaderGet(req.headers, <<"X-Forwarded-For">>), ","),
                    cfg.IP_DETERMINED_BY_X_FORWARDED_FOR_INDEX) = <<>>
         THEN "malformed"
    ELSE IF ip_filter_enabled_and_required_for_path(cfg, req) THEN "enforce"
    ELSE "bypass"

\* the path handle_request takes through lines 100-168: "health" (return "OK"),
\* "malformed" (403, client IP Unknown), "enforce" or "bypass"
Classify(cfg, req) ==
    IF ~HasHeader(req.headers, <<"X-Forwarded-For">>)
    THEN IF StartsWith(HeaderGet(req.headers, <<"user-agent">>), <<"ELB-HealthChecker">>)
         THEN "health"
         ELSE "malformed"
    ELSE IF PyIndex(Split(HeaderGet(req.headers, <<"X-Forwarded-For">>), ","),
                    cfg.IP_DETERMINED_BY_X_FORWARDED_FOR_INDEX) = <<>>
         THEN "malformed"
    ELSE IF ip_filter_enabled_and_required_for_path(cfg, req) THEN "enforce"
    ELSE "bypass"

\* lines 111-113: client_ip of a request that is not malformed
ClientIp(cfg, req) ==
    Strip(PyIndex(Split(HeaderGet(req.headers, <<"X-Forwarded-For">>), ","),
                  cfg.IP_DETERMINED_BY_X_FORWARDED_FOR_INDEX)[1])

Unknown == <<"Unknown">>

-----------------------------------------------------------------------------
(* config.py: get_appconfig_configuration and one turn of the loop of      *)
(* get_ipfilter_config                                                     *)

\* a variant of get_appconfig_configuration that does not look at the status
get_appconfig_configuration_NoStatusCheck(appconfig_path, answer) ==
    IF answer.status = 0
    THEN [raised |-> "AppConfigError", text |-> <<"connection failed">>,
          doc |-> answer.doc]
    ELSE [raised |-> "", text |-> <<>>, doc |-> answer.doc]

\* the agent's answer to one GET: status 0 stands for a transport error.
\* The result: the exception raised ("" for none), its text, and the document.
get_appconfig_configuration(appconfig_path, answer) ==
    IF answer.status = 0
    THEN [raised |-> "AppConfigError", text |-> <<"connection failed">>,
          doc |-> answer.doc]
    ELSE IF answer.status = 200
    THEN [raised |-> "", text |-> <<>>, doc |-> answer.doc]
    ELSE [raised |-> "AppConfigError",
          text |-> <<"AppConfig for ">> \o appconfig_path \o <<" not found.">>,
          doc |-> answer.doc]

\* a variant of FetchAndValidate that leaves the validation out
FetchAndValidate_NoValidation(appconfig_path, answer) ==
    get_appconfig_configuration(appconfig_path, answer)

\* lines 134-138 of config.py: fetch, then validate
FetchAndValidate(appconfig_path, answer) ==
    LET got == get_appconfig_configuration(appconfig_path, answer) IN
    IF got.raised # "" THEN got
    ELSE IF ~SchemaValid(got.doc)
    THEN [raised |-> "ValidationError",
          text |-> <<"AppConfig validation error: ">> \o SchemaErrorText(got.doc)
                   \o <<" for path ">> \o appconfig_path,
          doc |-> got.doc]
    ELSE got

\* a variant of get_ipfilter_config_returned whose return statement stands
\* inside the loop
get_ipfilter_config_returned_InLoop(cfg, handled) ==
    handled >= 1 \/ handled = Len(cfg.APPCONFIG_PROFILES)

\* config.py lines 133 and 144: get_ipfilter_config returns once the loop has
\* handled every profile
get_ipfilter_config_returned(cfg, handled) == handled = Len(cfg.APPCONFIG_PROFILES)

\* a variant of DeniedForException that appends the text of every exception
DeniedForException_AlwaysReason(ip, forwarded_url, raised, text) ==
    render_access_denied(ip, forwarded_url, text)

\* main.py lines 175-180: the 403 for an exception of get_ipfilter_config; only
\* an exception other than ValidationError has its text appended to the page
DeniedForException(ip, forwarded_url, raised, text) ==
    IF raised = "ValidationError"
    THEN render_access_denied(ip, forwarded_url, <<>>)
    ELSE render_access_denied(ip, forwarded_url, text)

-----------------------------------------------------------------------------
(* main.py: handle_request, lines 273-322                                  *)

\* the size asked of request.stream.read, line 284
RequestReadSize == 65536

\* the size asked of origin_response.stream, line 309
ResponseChunkSize == 65536

\* the most bytes a stream delivers per read: all that is asked for, or less
ReadSizes == {65536, 40000}

\* a variant of has_request_body that gives every request a body
has_request_body_Always(headers) == TRUE

\* lines 279-282
has_request_body(headers) ==
    \/ HasHeader(headers, <<"content-length">>)
    \/ Lower(HeaderGet(headers, <<"transfer-encoding">>)) = <<"chunked">>

\* the number a Content-Length value of the model stands for
DecimalValue(text) ==
    CASE text = <<"0">>      -> 0
      [] text = <<"3">>      -> 3
      [] text = <<"65537">>  -> 65537
      [] text = <<"105537">> -> 105537
      [] text = <<"200000">> -> 200000
      [] OTHER               -> 0

\* the length the request announces for its body
content_length(headers) ==
    IF HasHeader(headers, <<"content-length">>)
    THEN DecimalValue(HeaderGet(headers, <<"content-length">>))
    ELSE 0

\* the client has sent fewer bytes than it announced and sends no more
UploadUnfinished(req) == BytesLen(req.body) < content_length(req.headers)

\* what Flask answers when handle_request raises a BadRequest
BadRequest ==
    [status |-> 400, page |-> "Bad Request", client_ip |-> <<>>,
     forwarded_url |-> <<>>, reason |-> <<>>, headers |-> <<>>]

\* stream.read(size) on a stream that delivers at most short bytes per read:
\* the next bytes, b"" only at the end
StreamRead(unread, size, short) == Take(unread, Min(size, short))

\* a variant of request_body that takes a read shorter than asked as the last
RECURSIVE request_body_StopAtShortRead(_, _)
request_body_StopAtShortRead(unread, short) ==
    LET chunk == StreamRead(unread, RequestReadSize, short) IN
    IF chunk = <<>> THEN <<>>
    ELSE IF BytesLen(chunk) < RequestReadSize THEN <<chunk>>
    ELSE <<chunk>> \o request_body_StopAtShortRead(Drop(unread, BytesLen(chunk)), short)

\* line 284, iter(lambda: request.stream.read(65536), b""): the chunks read up
\* to the first empty read
RECURSIVE request_body(_, _)
request_body(unread, short) ==
    LET chunk == StreamRead(unread, RequestReadSize, short) IN
    IF chunk = <<>> THEN <<>>
    ELSE <<chunk>> \o request_body(Drop(unread, BytesLen(chunk)), short)

\* http.request(..., body=request_body): a body that is an iterator is framed
\* with the Content-Length or Transfer-Encoding it is given, and gets
\* "Transfer-Encoding: chunked" added when it is given neither
TransferEncodingAdded(headers, body_given) ==
    /\ body_given
    /\ ~HasHeader(headers, <<"content-length">>)
    /\ ~HasHeader(headers, <<"transfer-encoding">>)

\* a variant of http_request_sends with urllib3's defaults, three retries and
\* redirects followed
http_request_sends_Defaults(retries, redirect, answer) ==
    IF answer.status = 0 THEN 4
    ELSE IF answer.status \in {301, 302, 303, 307, 308} THEN 2
    ELSE 1

\* lines 287-298, http.request(..., redirect=False, retries=False): the number
\* of requests one call sends to the origin; retries is the number of further
\* attempts after a transport error, redirect whether a 3xx is followed
http_request_sends(retries, redirect, answer) ==
    IF answer.status = 0 THEN 1 + retries
    ELSE IF redirect /\ answer.status \in {301, 302, 303, 307, 308} THEN 2
    ELSE 1

NoStream ==
    [conn |-> "none", puts |-> 0, body |-> <<>>, unread |-> <<>>, sent |-> <<>>,
     failed |-> FALSE]

\* a variant of release_conn that puts the connection back on every call
release_conn_Again(st) ==
    [st EXCEPT !.conn = "pooled", !.puts = @ + 1]

\* lines 303-305, origin_response.release_conn(): the connection goes back to
\* the pool, unless the response no longer holds one
release_conn(st) ==
    IF st.conn = "out" THEN [st EXCEPT !.conn = "pooled", !.puts = @ + 1] ELSE st

\* maxsize of the upstream pool, line 56
PoolMaxsize == 10

\* line 56 passes no block argument: the pool is created with block=False
PoolBlock == FALSE

\* urllib3.HTTPConnectionPool(server, maxsize=10), line 56: a queue of maxsize
\* places for idle connections, all of them filled at the start, and the number
\* of connections that are checked out
NewPool == [queued |-> PoolMaxsize, out |-> 0]

\* a variant of PoolCanGet for a pool that always makes the caller wait
PoolCanGet_Blocking(p, block) == p.queued > 0

\* whether the pool hands out a connection now: a blocking pool whose queue is
\* empty makes the caller wait
PoolCanGet(p, block) == ~block \/ p.queued > 0

\* the pool hands out a connection, lines 287-298: one from the queue, or, the
\* queue being empty, a new one
PoolGet(p) ==
    [queued |-> IF p.queued > 0 THEN p.queued - 1 ELSE 0, out |-> p.out + 1]

\* a connection is given back, line 305: it goes into the queue, or, the queue
\* being full, it is closed and dropped
PoolPut(p) ==
    [queued |-> Min(p.queued + 1, PoolMaxsize), out |-> p.out - 1]

\* the pool after release_conn(st)
PoolAfterRelease(p, st) == IF st.conn = "out" THEN PoolPut(p) ELSE p

\* the connections checked out by requests other than the one followed
OthersOut(p, st) == p.out - (IF st.conn = "out" THEN 1 ELSE 0)

\* no warning has been logged
NoWarnings == [paths |-> 0, hosts |-> 0]

\* a variant of LogConflicts that logs each warning once per process
LogConflicts_Once(cfg, log) ==
    [paths |-> IF cfg.PUBLIC_PATHS # <<>> /\ cfg.PROTECTED_PATHS # <<>>
               THEN 1 ELSE log.paths,
     hosts |-> IF cfg.PRIV_HOST_LIST # <<>> /\ cfg.PUB_HOST_LIST # <<>>
               THEN 1 ELSE log.hosts]

\* lines 125-141: the warnings handle_request logs for one request
LogConflicts(cfg, log) ==
    [paths |-> log.paths + (IF cfg.PUBLIC_PATHS # <<>> /\ cfg.PROTECTED_PATHS # <<>>
                            THEN 1 ELSE 0),
     hosts |-> log.hosts + (IF cfg.PRIV_HOST_LIST # <<>> /\ cfg.PUB_HOST_LIST # <<>>
                            THEN 1 ELSE 0)]

-----------------------------------------------------------------------------
(* The state machine                                                       *)

\* the most warnings of one kind the process is followed through
MaxWarnings == 2

NoRequest ==
    [method |-> "", path |-> <<>>, host |-> "", headers |-> <<>>, body |-> <<>>]

NoAnswer ==
    [status |-> 0,
     doc |-> [mapping |-> TRUE, keys |-> {}, IpRanges |-> <<>>, BasicAuth |-> <<>>,
              SharedTokens |-> <<>>]]

NoLookup ==
    [call |-> "", key |-> <<>>, default |-> PyNone, allow |-> FALSE,
     result |-> Returned(PyNone)]

\* ",".join(list)
RECURSIVE JoinComma(_)
JoinComma(list) ==
    IF list = <<>> THEN <<>>
    ELSE IF Len(list) = 1 THEN Head(list)
    ELSE Head(list) \o <<",">> \o JoinComma(Tail(list))

\* an environment from which settings.py builds the settings cfg
EnvironFor(cfg) ==
    (EnvKey("COPILOT_ENVIRONMENT_NAME") :> <<"staging">>)
    @@ (EnvKey("SERVER") :> cfg.SERVER)
    @@ (EnvKey("EMAIL") :> cfg.EMAIL)
    @@ (EnvKey("IPFILTER_ENABLED") :>
            IF cfg.IPFILTER_ENABLED THEN <<"True">> ELSE <<"False">>)
    @@ (EnvKey("APPCONFIG_PROFILES") :> JoinComma(cfg.APPCONFIG_PROFILES))
    @@ (EnvKey("PUBLIC_PATHS") :> JoinComma(cfg.PUBLIC_PATHS))
    @@ (EnvKey("PROTECTED_PATHS") :> JoinComma(cfg.PROTECTED_PATHS))
    @@ (EnvKey("PUB_HOST_LIST") :>
            JoinComma([i \in DOMAIN cfg.PUB_HOST_LIST |-> <<cfg.PUB_HOST_LIST[i]>>]))
    @@ (EnvKey("PRIV_HOST_LIST") :>
            JoinComma([i \in DOMAIN cfg.PRIV_HOST_LIST |-> <<cfg.PRIV_HOST_LIST[i]>>]))
    @@ (EnvKey("ADDITIONAL_IP_LIST") :> JoinComma(cfg.ADDITIONAL_IP_LIST))
    @@ (EnvKey("IP_DETERMINED_BY_X_FORWARDED_FOR_INDEX") :>
            <<DecimalText(cfg.IP_DETERMINED_BY_X_FORWARDED_FOR_INDEX)>>)

\* Start-up: the settings are drawn from a set, with an environment that
\* yields them; no request is in progress.
InitWith(Settings) ==
    /\ config \in Settings
    /\ environ = EnvironFor(config)
    /\ looked_up = NoLookup
    /\ pc = "idle"
    /\ request = NoRequest
    /\ client_ip = <<>>
    /\ headers_to_remove = {}
    /\ fetched = 0
    /\ ip_filter_rules = NoRules
    /\ response = NoResponse
    /\ agent_calls = 0
    /\ agent_answer = NoAnswer
    /\ origin_calls = 0
    /\ origin_request = NoRequest
    /\ origin_status = 0
    /\ allowed_before = FALSE
    /\ agent_docs = <<>>
    /\ stream = NoStream
    /\ compared = <<>>
    /\ warnings = NoWarnings
    /\ pool = NewPool

\* handle_request up to line 170: a request arrives and is classified
Receive(Requests) ==
    /\ pc = "idle"
    /\ \E req \in Requests :
        LET class == Classify(config, req)
            logged == IF class \in {"enforce", "bypass"}
                      THEN LogConflicts(config, warnings) ELSE warnings
        IN
        /\ logged.paths <= MaxWarnings
        /\ logged.hosts <= MaxWarnings
        /\ warnings' = logged
        /\ request' = req
        /\ client_ip' = IF class \in {"enforce", "bypass"}
                        THEN ClientIp(config, req) ELSE <<>>
        /\ response' = IF class = "health" THEN Plain("OK")
                       ELSE IF class = "malformed"
                       THEN render_access_denied(Unknown, req.path, <<>>)
                       ELSE NoResponse
        /\ pc' = IF class = "enforce" THEN "fetch"
                 ELSE IF class = "bypass" THEN "origin"
                 ELSE "done"
    /\ headers_to_remove' = {}
    /\ UNCHANGED <<config, fetched, ip_filter_rules, agent_calls, agent_answer,
                   origin_calls, origin_request, origin_status, allowed_before,
                   agent_docs, stream, environ, looked_up,
                   compared, pool>>

\* one turn of the loop of get_ipfilter_config (config.py lines 133-142), and
\* the handlers of main.py lines 175-180 when it raises
FetchProfile(AgentAnswers) ==
    /\ pc = "fetch"
    /\ fetched < Len(config.APPCONFIG_PROFILES)
    /\ LET config_path == config.APPCONFIG_PROFILES[fetched + 1] IN
       IF ~WellFormedPath(config_path)
       THEN \* the unpacking of split(":") raises ValueError before any GET
            /\ response' = DeniedForException(client_ip, request.path,
                                              "ValueError", <<"not enough values to unpack">>)
            /\ pc' = "done"
            /\ UNCHANGED <<fetched, ip_filter_rules, agent_calls, agent_answer,
                           agent_docs>>
       ELSE \E answer \in AgentAnswers :
            LET got == FetchAndValidate(config_path, answer) IN
            /\ agent_calls' = agent_calls + 1
            /\ agent_answer' = answer
            /\ agent_docs' = IF got.raised \in {"", "ValidationError"}
                             THEN Append(agent_docs,
                                         [path |-> config_path, doc |-> got.doc])
                             ELSE agent_docs
            /\ IF got.raised # ""
               THEN /\ response' = DeniedForException(client_ip, request.path,
                                                      got.raised, got.text)
                    /\ pc' = "done"
                    /\ UNCHANGED <<fetched, ip_filter_rules>>
               ELSE /\ ip_filter_rules' = ExtendRules(ip_filter_rules, got.doc)
                    /\ fetched' = fetched + 1
                    /\ UNCHANGED <<response, pc>>
    /\ UNCHANGED <<config, request, client_ip, headers_to_remove, origin_calls,
                   origin_request, origin_status, allowed_before, stream, environ,
                   looked_up,
                   compared, warnings, pool>>

\* main.py lines 182-271, once get_ipfilter_config has returned
Evaluate ==
    /\ pc = "fetch"
    /\ get_ipfilter_config_returned(config, fetched)
    /\ LET verdict == Verdict(config, request, ip_filter_rules, client_ip) IN
       /\ headers_to_remove' = IF verdict = "raise" THEN headers_to_remove
                               ELSE HeadersToRemove(ip_filter_rules)
       /\ response' = CASE verdict = "raise" -> InternalServerError
                        [] verdict = "401"   -> LoginRequired
                        [] verdict = "ok"    -> Plain("ok")
                        [] verdict = "403"   ->
                               render_access_denied(client_ip, request.path, <<>>)
                        [] OTHER             -> NoResponse
       /\ pc' = IF verdict = "proxy" THEN "origin" ELSE "done"
       /\ compared' = IF verdict = "raise" THEN <<>>
                       ELSE shared_token_comparisons(request,
                                                     ip_filter_rules.shared_tokens)
    /\ UNCHANGED <<config, request, client_ip, fetched, ip_filter_rules,
                   agent_calls, agent_answer, origin_calls, origin_request,
                   origin_status, allowed_before, agent_docs, stream, environ,
                   looked_up,
                   warnings, pool>>

\* main.py lines 279-316: http.request, which sends the request with its body
\* and returns once the origin has answered, and the downstream response. An
\* answer of status 0 stands for a transport error, which http.request
\* raises, having given its connection back, and Flask turns into a 500.
OriginRequest(OriginAnswers) ==
    /\ pc = "origin"
    /\ ~UploadUnfinished(request)
    /\ PoolCanGet(pool, PoolBlock)
    /\ \E answer \in OriginAnswers, short \in ReadSizes :
        LET headers == HeadersExcept(request.headers, headers_to_remove)
            body_given == has_request_body(request.headers)
        IN
        /\ origin_status' = answer.status
        /\ response' = IF answer.status = 0 THEN InternalServerError
                       ELSE Downstream(answer.status, answer.headers)
        /\ origin_calls' = origin_calls + http_request_sends(0, FALSE, answer)
        /\ origin_request' =
               [method     |-> request.method,
                path       |-> request.path,
                host       |-> request.host,
                headers    |-> headers,
                body_given |-> body_given,
                body       |-> IF body_given
                               THEN Join(request_body(request.body, short))
                               ELSE <<>>,
                transfer_encoding_added |-> TransferEncodingAdded(headers, body_given)]
        /\ stream' = IF answer.status = 0
                     THEN release_conn([NoStream EXCEPT !.conn = "out"])
                     ELSE [conn |-> "out", puts |-> 0, body |-> answer.body,
                           unread |-> answer.body, sent |-> <<>>, failed |-> FALSE]
        /\ pool' = IF answer.status = 0 THEN PoolPut(PoolGet(pool)) ELSE PoolGet(pool)
        /\ pc' = IF answer.status = 0 THEN "done" ELSE "stream"
    /\ UNCHANGED <<config, request, client_ip, headers_to_remove, fetched,
                   ip_filter_rules, agent_calls, agent_answer, allowed_before,
                   agent_docs, environ, looked_up,
                   compared, warnings>>

\* line 309, one chunk of origin_response.stream(65536, decode_content=False)
\* goes to the client
StreamChunk ==
    /\ pc = "stream"
    /\ stream.unread # <<>>
    /\ \E short \in ReadSizes :
        LET chunk == StreamRead(stream.unread, ResponseChunkSize, short) IN
        stream' = [stream EXCEPT !.unread = Drop(@, BytesLen(chunk)),
                                 !.sent = Cat(@, chunk)]
    /\ UNCHANGED <<config, pc, request, client_ip, headers_to_remove, fetched,
                   ip_filter_rules, response, agent_calls, agent_answer,
                   origin_calls, origin_request, origin_status, allowed_before,
                   agent_docs, environ, looked_up,
                   compared, warnings, pool>>

\* the origin's body has been read to its end: urllib3 gives the connection
\* back, and the server goes on to close the response
StreamEnd ==
    /\ pc = "stream"
    /\ stream.unread = <<>>
    /\ stream' = release_conn(stream)
    /\ pool' = PoolAfterRelease(pool, stream)
    /\ pc' = "close"
    /\ UNCHANGED <<config, request, client_ip, headers_to_remove, fetched,
                   ip_filter_rules, response, agent_calls, agent_answer,
                   origin_calls, origin_request, origin_status, allowed_before,
                   agent_docs, environ, looked_up,
                   compared, warnings>>

\* streaming fails (the client has gone, or the origin's body breaks off): the
\* server goes on to close the response
StreamFails ==
    /\ pc = "stream"
    /\ stream' = [stream EXCEPT !.failed = TRUE]
    /\ pc' = "close"
    /\ UNCHANGED <<config, request, client_ip, headers_to_remove, fetched,
                   ip_filter_rules, response, agent_calls, agent_answer,
                   origin_calls, origin_request, origin_status, allowed_before,
                   agent_docs, environ, looked_up,
                   compared, warnings, pool>>

\* lines 303-306 and 318: the server closes the downstream response, which
\* calls release_conn
CloseResponse ==
    /\ pc = "close"
    /\ stream' = release_conn(stream)
    /\ pool' = PoolAfterRelease(pool, stream)
    /\ pc' = "done"
    /\ UNCHANGED <<config, request, client_ip, headers_to_remove, fetched,
                   ip_filter_rules, response, agent_calls, agent_answer,
                   origin_calls, origin_request, origin_status, allowed_before,
                   agent_docs, environ, looked_up,
                   compared, warnings>>

\* lines 279-298 for an upload the client does not finish: http.request takes a
\* connection and sends what request.stream.read delivers; the next read waits
\* for bytes that do not come, and no timeout is set (line 56, lines 287-298)
OriginRequestUnfinished ==
    /\ pc = "origin"
    /\ UploadUnfinished(request)
    /\ PoolCanGet(pool, PoolBlock)
    /\ \E short \in ReadSizes :
        LET headers == HeadersExcept(request.headers, headers_to_remove)
            body_given == has_request_body(request.headers)
        IN
        /\ origin_request' =
               [method     |-> request.method,
                path       |-> request.path,
                host       |-> request.host,
                headers    |-> headers,
                body_given |-> body_given,
                body       |-> Join(request_body(request.body, short)),
                transfer_encoding_added |-> TransferEncodingAdded(headers, body_given)]
    /\ origin_calls' = origin_calls + 1
    /\ stream' = [NoStream EXCEPT !.conn = "out"]
    /\ pool' = PoolGet(pool)
    /\ pc' = "blocked"
    /\ UNCHANGED <<config, request, client_ip, headers_to_remove, fetched,
                   ip_filter_rules, response, agent_calls, agent_answer,
                   origin_status, allowed_before, agent_docs, environ, looked_up,
                   compared, warnings>>

\* the client closes its connection while line 284 waits for it: the read
\* raises inside http.request, which closes its connection and gives the place
\* back to the pool, and handle_request raises
ClientDisconnects ==
    /\ pc = "blocked"
    /\ response' \in {BadRequest, InternalServerError}
    /\ stream' = release_conn(stream)
    /\ pool' = PoolAfterRelease(pool, stream)
    /\ pc' = "done"
    /\ UNCHANGED <<config, request, client_ip, headers_to_remove, fetched,
                   ip_filter_rules, agent_calls, agent_answer, origin_calls,
                   origin_request, origin_status, allowed_before, agent_docs,
                   environ, looked_up, compared, warnings>>

\* another request, handled at the same time, reaches lines 287-298 and takes a
\* connection from the pool
OtherAcquires(MaxOut) ==
    /\ OthersOut(pool, stream) < MaxOut
    /\ PoolCanGet(pool, PoolBlock)
    /\ pool' = PoolGet(pool)
    /\ UNCHANGED <<config, pc, request, client_ip, headers_to_remove, fetched,
                   ip_filter_rules, response, agent_calls, agent_answer,
                   origin_calls, origin_request, origin_status, allowed_before,
                   agent_docs, stream, environ, looked_up, compared, warnings>>

\* another request's response is closed, lines 303-306: its connection is
\* given back
OtherReleases ==
    /\ OthersOut(pool, stream) > 0
    /\ pool' = PoolPut(pool)
    /\ UNCHANGED <<config, pc, request, client_ip, headers_to_remove, fetched,
                   ip_filter_rules, response, agent_calls, agent_answer,
                   origin_calls, origin_request, origin_status, allowed_before,
                   agent_docs, stream, environ, looked_up, compared, warnings>>

\* a call env.get_value(key, default=..., allow_environment_override=...)
GetValue(Keys, Defaults) ==
    /\ pc = "idle"
    /\ \E key \in Keys, default \in Defaults, allow \in BOOLEAN :
        looked_up' = [call |-> "get_value", key |-> key, default |-> default,
                      allow |-> allow,
                      result |-> get_value(environ, key, default, allow)]
    /\ UNCHANGED <<config, pc, request, client_ip, headers_to_remove, fetched,
                   ip_filter_rules, response, agent_calls, agent_answer,
                   origin_calls, origin_request, origin_status, allowed_before,
                   agent_docs, stream, environ,
                   compared, warnings, pool>>

\* a call env.list(key, default=..., allow_environment_override=...)
GetList(Keys, Defaults) ==
    /\ pc = "idle"
    /\ \E key \in Keys, default \in Defaults, allow \in BOOLEAN :
        looked_up' = [call |-> "list", key |-> key, default |-> default,
                      allow |-> allow,
                      result |-> env_list(environ, key, default, allow)]
    /\ UNCHANGED <<config, pc, request, client_ip, headers_to_remove, fetched,
                   ip_filter_rules, response, agent_calls, agent_answer,
                   origin_calls, origin_request, origin_status, allowed_before,
                   agent_docs, stream, environ,
                   compared, warnings, pool>>

\* a call env.bool(key, default=..., allow_environment_override=...)
GetBool(Keys, Defaults) ==
    /\ pc = "idle"
    /\ \E key \in Keys, default \in Defaults, allow \in BOOLEAN :
        looked_up' = [call |-> "bool", key |-> key, default |-> default,
                      allow |-> allow,
                      result |-> env_bool(environ, key, default, allow)]
    /\ UNCHANGED <<config, pc, request, client_ip, headers_to_remove, fetched,
                   ip_filter_rules, response, agent_calls, agent_answer,
                   origin_calls, origin_request, origin_status, allowed_before,
                   agent_docs, stream, environ,
                   compared, warnings, pool>>

\* app.config before settings.py has run
NoSettings ==
    [DEBUG |-> FALSE, SERVER_PROTO |-> <<>>, SERVER |-> <<>>, EMAIL |-> <<>>,
     IPFILTER_ENABLED |-> FALSE, APPCONFIG_PROFILES |-> <<>>, PUBLIC_PATHS |-> <<>>,
     PROTECTED_PATHS |-> <<>>, PUB_HOST_LIST |-> <<>>, PRIV_HOST_LIST |-> <<>>,
     ADDITIONAL_IP_LIST |-> <<>>, IP_DETERMINED_BY_X_FORWARDED_FOR_INDEX |-> 0]

\* main.py line 48, app.config.from_object("settings"): settings.py is run;
\* an exception ends the process before it serves a request
Startup ==
    /\ pc = "start"
    /\ LET built == settings(environ) IN
       /\ looked_up' = [call |-> "settings", key |-> <<>>, default |-> PyNone,
                        allow |-> FALSE,
                        result |-> IF built.raised # "" THEN Raised(built.raised)
                                   ELSE Returned(PyNone)]
       /\ config' = IF built.raised # "" THEN config ELSE built.value
       /\ pc' = IF built.raised # "" THEN "exit" ELSE "idle"
    /\ UNCHANGED <<request, client_ip, headers_to_remove, fetched, ip_filter_rules,
                   response, agent_calls, agent_answer, origin_calls,
                   origin_request, origin_status, allowed_before, agent_docs,
                   stream, environ, compared, warnings, pool>>

\* the response has been sent; the handler's locals are gone
Finish ==
    /\ pc = "done"
    /\ pc' = "idle"
    /\ allowed_before' = (allowed_before \/ origin_calls > 0)
    /\ request' = NoRequest
    /\ client_ip' = <<>>
    /\ headers_to_remove' = {}
    /\ fetched' = 0
    /\ ip_filter_rules' = NoRules
    /\ response' = NoResponse
    /\ agent_calls' = 0
    /\ agent_answer' = NoAnswer
    /\ origin_calls' = 0
    /\ origin_request' = NoRequest
    /\ origin_status' = 0
    /\ agent_docs' = <<>>
    /\ stream' = NoStream
    /\ compared' = <<>>
    /\ UNCHANGED <<config, environ, looked_up,
                   warnings, pool>>

-----------------------------------------------------------------------------
(* Bounds and input sets                                                   *)

\* the longest APPCONFIG_PROFILES list
MaxProfiles == 2

\* the longest X-Forwarded-For value, in tokens
MaxXffTokens == 3

Setting(enabled, profiles, public, protected, pub, priv, additional, index) ==
    [DEBUG              |-> FALSE,
     SERVER_PROTO       |-> <<"http">>,
     SERVER             |-> <<"localhost:8081">>,
     EMAIL              |-> <<"test@test.test">>,
     IPFILTER_ENABLED   |-> enabled,
     APPCONFIG_PROFILES |-> profiles,
     PUBLIC_PATHS       |-> public,
     PROTECTED_PATHS    |-> protected,
     PUB_HOST_LIST      |-> pub,
     PRIV_HOST_LIST     |-> priv,
     ADDITIONAL_IP_LIST |-> additional,
     IP_DETERMINED_BY_X_FORWARDED_FOR_INDEX |-> index]

ProfileId == <<"testapp", ":", "testenv", ":", "testconfig">>
MalformedProfileId == <<"testapp", ":", "testconfig">>

ProfileLists ==
    UNION {[1..n -> {ProfileId}] : n \in 0..MaxProfiles} \cup {<<MalformedProfileId>>}

Request(path, host, headers) ==
    [method |-> "GET", path |-> path, host |-> host, headers |-> headers,
     body |-> <<>>]

Header(name, value) == << <<name, value>> >>

\* headers every request of the model carries
CommonHeaders ==
    Header(<<"Connection">>, <<"close">>) \o Header(<<"Accept">>, <<"*/*">>)

\* "<ip>, 1.1.1.1": with the default index -2 the client IP is <ip>
XffEndingAtProxy(ip) == <<ip, ",", " ", "1.1.1.1">>

BasicCredentials(username, password) == <<"Basic">> \o username \o <<":">> \o password

\* documents of the AppConfig agent
Doc(keys, ips, auth, tokens) ==
    [mapping |-> TRUE, keys |-> keys, IpRanges |-> ips, BasicAuth |-> auth,
     SharedTokens |-> tokens]

BasicAuthEntry(path, username, password) ==
    [Path |-> YamlStr(path), Username |-> YamlStr(username),
     Password |-> YamlStr(password)]

SharedToken(name, value) == [HeaderName |-> YamlStr(name), Value |-> YamlStr(value)]

AuthOnA      == BasicAuthEntry(<<"/", "a">>, <<"a">>, <<"b">>)
OtherAuthOnA == BasicAuthEntry(<<"/", "a">>, <<"c">>, <<"e">>)
AuthOnB      == BasicAuthEntry(<<"/", "b">>, <<"c">>, <<"e">>)
CdnSecret    == SharedToken(<<"x-cdn-secret">>, <<"a", "b">>)
SharedSecret == SharedToken(<<"X-Shared-Secret">>, <<"a", "c">>)

ValidDocs ==
    { Doc({}, <<>>, <<>>, <<>>),
      Doc({"IpRanges"}, <<<<"1.2.3.4/32">>>>, <<>>, <<>>),
      Doc({"IpRanges", "BasicAuth"}, <<<<"1.2.3.4/32">>>>, <<AuthOnA>>, <<>>),
      Doc({"BasicAuth"}, <<>>, <<OtherAuthOnA>>, <<>>),
      Doc({"BasicAuth", "Other"}, <<>>, <<AuthOnB>>, <<>>),
      Doc({"SharedTokens"}, <<>>, <<>>, <<CdnSecret>>),
      Doc({"IpRanges", "SharedTokens"}, <<<<"1.2.3.4/32">>>>, <<>>, <<SharedSecret>>) }

InvalidDocs ==
    { Doc({"IpRanges"}, <<<<"1.1.1.1/16">>>>, <<>>, <<>>),
      Doc({"BasicAuth"}, <<>>,
          <<[Path |-> YamlStr(<<"/", "a">>), Username |-> YamlStr(<<"a">>),
             Password |-> YamlMissing]>>, <<>>),
      [Doc({}, <<>>, <<>>, <<>>) EXCEPT !.mapping = FALSE] }

AnswersWith(docs) ==
    {[status |-> st, doc |-> Doc({}, <<>>, <<>>, <<>>)] : st \in {0, 404}}
        \cup {[status |-> 200, doc |-> d] : d \in docs}

AgentAnswers == AnswersWith(ValidDocs \cup InvalidDocs)

OriginAnswers ==
    { [status |-> 0, headers |-> <<>>, body |-> <<>>],
      [status |-> 200,
       headers |-> Header(<<"Connection">>, <<"keep-alive">>)
                   \o Header(<<"Content-Type">>, <<"text/html">>),
       body |-> <<Run("a", 3)>>],
      [status |-> 404, headers |-> <<>>, body |-> <<>>] }

\* Settings and requests that exercise the evaluator of lines 182-271
EvaluatorSettings ==
    { Setting(enabled, profiles, <<>>, <<>>, <<>>, <<>>, additional, -2) :
        enabled \in BOOLEAN,
        profiles \in ProfileLists,
        additional \in {<<>>, <<<<"1.1.1.0/31">>>>} }

EvaluatorRequests ==
    { Request(path, "a.test",
              Header(<<"X-Forwarded-For">>, XffEndingAtProxy(ip))
              \o authorization \o token \o CommonHeaders) :
        path \in {<<"/", "a">>, <<"/", "a", "b">>},
        ip \in {"1.2.3.4", "1.1.1.1", "junk"},
        authorization \in
            {<<>>,
             Header(<<"Authorization">>, BasicCredentials(<<"a">>, <<"b">>)),
             Header(<<"Authorization">>, BasicCredentials(<<"c">>, <<"e">>))},
        token \in
            {<<>>,
             Header(<<"X-CDN-Secret">>, <<"a", "b">>),
             Header(<<"X-CDN-Secret">>, <<"a", "c">>)} }
    \cup
    { Request(<<"/", "a">>, "a.test",
              Header(<<"User-Agent">>, agent) \o CommonHeaders) :
        agent \in {<<"ELB-HealthChecker", "/", "2.0">>, <<"curl">>} }

Init == InitWith(EvaluatorSettings)

Next ==
    \/ Receive(EvaluatorRequests)
    \/ FetchProfile(AgentAnswers)
    \/ Evaluate
    \/ OriginRequest(OriginAnswers)
    \/ StreamChunk
    \/ StreamEnd
    \/ StreamFails
    \/ CloseResponse
    \/ Finish

Spec == Init /\ [][Next]_vars

\* Settings and requests that exercise the classifier of lines 122-168
ClassifierSettings ==
    { Setting(enabled, <<ProfileId>>, public, protected, pub, priv,
              <<<<"1.1.1.0/31">>>>, -2) :
        enabled \in BOOLEAN,
        public \in {<<>>, <<<<"/", "a">>>>},
        protected \in {<<>>, <<<<"/", "a">>>>, <<<<"/", "b">>>>},
        pub \in {<<>>, <<"a.test">>},
        priv \in {<<>>, <<"a.test">>, <<"b.test">>} }

ClassifierRequests ==
    { Request(path, host,
              Header(<<"X-Forwarded-For">>, XffEndingAtProxy(ip)) \o CommonHeaders) :
        path \in {<<"/", "a">>, <<"/", "a", "b">>, <<"/", "b">>, <<"/", "c">>},
        host \in {"a.test", "b.test"},
        ip \in {"1.2.3.4", "1.1.1.1"} }
    \cup
    { Request(path, "a.test", Header(<<"User-Agent">>, agent) \o CommonHeaders) :
        path \in {<<"/", "a">>, <<"/", "c">>},
        agent \in {<<"ELB-HealthChecker", "/", "2.0">>, <<"curl">>} }
    \cup
    { Request(<<"/", "a">>, "a.test", CommonHeaders) }

ClassifierAnswers ==
    AnswersWith({Doc({}, <<>>, <<>>, <<>>),
                 Doc({"IpRanges"}, <<<<"1.1.1.1/16">>>>, <<>>, <<>>)})

InitClassifier == InitWith(ClassifierSettings)

NextClassifier ==
    \/ Receive(ClassifierRequests)
    \/ FetchProfile(ClassifierAnswers)
    \/ Evaluate
    \/ OriginRequest(OriginAnswers)
    \/ StreamChunk
    \/ StreamEnd
    \/ StreamFails
    \/ CloseResponse
    \/ Finish

SpecClassifier == InitClassifier /\ [][NextClassifier]_vars

\* Settings and requests that exercise the choice of the client IP, lines 100-120
XffSettings ==
    { Setting(enabled, <<ProfileId>>, <<>>, <<>>, <<>>, <<>>, <<<<"1.1.1.0/31">>>>, index) :
        enabled \in BOOLEAN,
        index \in (-(MaxXffTokens + 2))..(MaxXffTokens + 1) }

XffValues ==
    UNION {[1..n -> {"1.1.1.1", ",", " "}] : n \in 0..MaxXffTokens}

XffRequests ==
    { Request(<<"/", "a">>, "a.test",
              Header(<<"X-Forwarded-For">>, value) \o CommonHeaders) :
        value \in XffValues }
    \cup
    { Request(<<"/", "a">>, "a.test", Header(<<"User-Agent">>, agent) \o CommonHeaders) :
        agent \in {<<"ELB-HealthChecker", "/", "2.0">>, <<"curl">>} }

InitXff == InitWith(XffSettings)

NextXff ==
    \/ Receive(XffRequests)
    \/ FetchProfile(ClassifierAnswers)
    \/ Evaluate
    \/ OriginRequest(OriginAnswers)
    \/ StreamChunk
    \/ StreamEnd
    \/ StreamFails
    \/ CloseResponse
    \/ Finish

SpecXff == InitXff /\ [][NextXff]_vars

\* Settings, requests and documents that exercise get_ipfilter_config
OtherProfileId == <<"testapp", ":", "testenv", ":", "other">>

PolicySettings ==
    { Setting(TRUE, profiles, <<>>, <<>>, <<>>, <<>>, <<>>, -2) :
        profiles \in UNION {[1..n -> {ProfileId, OtherProfileId}] : n \in 0..MaxProfiles} }

PolicyRequests ==
    { Request(<<"/", "a">>, "a.test",
              Header(<<"X-Forwarded-For">>, XffEndingAtProxy("1.2.3.4"))
              \o Header(<<"Authorization">>, BasicCredentials(<<"a">>, <<"b">>))
              \o Header(<<"X-CDN-Secret">>, <<"a", "b">>) \o CommonHeaders),
      Request(<<"/", "a">>, "a.test",
              Header(<<"X-Forwarded-For">>, XffEndingAtProxy("1.1.1.1"))
              \o CommonHeaders) }

PolicyValidDocs ==
    { Doc({}, <<>>, <<>>, <<>>),
      Doc({"IpRanges", "BasicAuth", "SharedTokens"},
          <<<<"1.2.3.4/32">>, <<"1.1.1.0/31">>>>, <<AuthOnA, AuthOnB>>,
          <<CdnSecret, SharedSecret>>),
      Doc({"IpRanges"}, <<<<"1.1.1.1/32">>>>, <<>>, <<>>),
      Doc({"IpRanges", "Other"}, <<<<"1.1.1.1">>>>, <<>>, <<>>),
      Doc({"BasicAuth", "Other"}, <<>>, <<OtherAuthOnA>>, <<>>),
      Doc({"SharedTokens"}, <<>>, <<>>, <<SharedSecret>>) }

PolicyInvalidDocs ==
    { Doc({"IpRanges"}, <<<<"1.2.3.4/32">>, <<"1.1.1.1/16">>>>, <<>>, <<>>),
      Doc({"IpRanges", "BasicAuth"}, <<<<"junk">>>>, <<AuthOnA>>, <<>>) }
    \cup
    { Doc({"BasicAuth"}, <<>>, <<AuthOnB, [AuthOnA EXCEPT ![key] = bad]>>, <<>>) :
        key \in {"Path", "Username", "Password"},
        bad \in {YamlInt(<<"1">>), YamlMissing} }

PolicyAnswers == AnswersWith(PolicyValidDocs \cup PolicyInvalidDocs)

InitPolicy == InitWith(PolicySettings)

NextPolicy ==
    \/ Receive(PolicyRequests)
    \/ FetchProfile(PolicyAnswers)
    \/ Evaluate
    \/ OriginRequest(OriginAnswers)
    \/ StreamChunk
    \/ StreamEnd
    \/ StreamFails
    \/ CloseResponse
    \/ Finish

SpecPolicy == InitPolicy /\ [][NextPolicy]_vars

\* Settings, requests and answers that exercise the bodies, lines 279-322
BodySettings ==
    { Setting(enabled, <<ProfileId>>, <<>>, <<>>, <<>>, <<>>, <<>>, -2) :
        enabled \in BOOLEAN }

\* the framing headers of a request and the body the client sends with them
Framings ==
    { [headers |-> <<>>, body |-> <<>>],
      [headers |-> Header(<<"Transfer-Encoding">>, <<"gzip">>), body |-> <<>>],
      [headers |-> Header(<<"Content-Length">>, <<"0">>), body |-> <<>>],
      [headers |-> Header(<<"Content-Length">>, <<"3">>), body |-> <<Run("a", 3)>>],
      [headers |-> Header(<<"content-length">>, <<"65537">>),
       body |-> <<Run("a", 65536), Run("b", 1)>>],
      [headers |-> Header(<<"Content-Length">>, <<"105537">>),
       body |-> <<Run("a", 40000), Run("b", 65537)>>],
      [headers |-> Header(<<"Transfer-Encoding">>, <<"chunked">>),
       body |-> <<Run("a", 65536), Run("b", 1), Run("a", 1)>>],
      [headers |-> Header(<<"Transfer-Encoding">>, <<"Chunked">>),
       body |-> <<Run("b", 2)>>] }

BodyRequests ==
    { [method  |-> method,
       path    |-> <<"/", "a">>,
       host    |-> "a.test",
       headers |-> Header(<<"X-Forwarded-For">>, XffEndingAtProxy("1.2.3.4"))
                   \o framing.headers \o CommonHeaders,
       body    |-> framing.body] :
        method \in {"GET", "POST", "PUT"}, framing \in Framings }

BodyAnswers ==
    AnswersWith({Doc({"IpRanges"}, <<<<"1.2.3.4/32">>>>, <<>>, <<>>)})

BodyOriginAnswers ==
    { [status |-> 0, headers |-> <<>>, body |-> <<>>],
      [status |-> 200, headers |-> Header(<<"Content-Type">>, <<"text/html">>),
       body |-> <<Run("a", 65536), Run("b", 40000)>>],
      [status |-> 302, headers |-> Header(<<"Location">>, <<"/", "b">>),
       body |-> <<>>],
      [status |-> 404, headers |-> Header(<<"Connection">>, <<"close">>),
       body |-> <<Run("c", 1)>>] }

InitBody == InitWith(BodySettings)

NextBody ==
    \/ Receive(BodyRequests)
    \/ FetchProfile(BodyAnswers)
    \/ Evaluate
    \/ OriginRequest(BodyOriginAnswers)
    \/ StreamChunk
    \/ StreamEnd
    \/ StreamFails
    \/ CloseResponse
    \/ Finish

SpecBody == InitBody /\ [][NextBody]_vars

\* The server goes on with a response it has begun: it takes the chunks that
\* are there, and it closes the response, also after a failure.
FairSpecBody ==
    /\ InitBody
    /\ [][NextBody]_vars
    /\ WF_vars(StreamChunk)
    /\ WF_vars(StreamEnd)
    /\ WF_vars(CloseResponse)

\* Environments and calls that exercise Environ, config.py lines 16-62
NothingSet == [key \in {} |-> <<>>]

\* the ways of setting, or not setting, one variable
Settable(key, texts) == {NothingSet} \cup {key :> text : text \in texts}

Environs ==
    { (EnvKey("COPILOT_ENVIRONMENT_NAME") :> name)
      @@ (EnvKey("SERVER") :> <<"localhost:8081">>)
      @@ (EnvKey("EMAIL") :> <<"test@test.test">>)
      @@ paths @@ staging_paths @@ prod_paths @@ enabled @@ staging_enabled :
        name \in {<<"staging">>, <<"Staging">>},
        paths \in Settable(<<"PUBLIC_PATHS">>,
                           {<<>>, <<"/", "a">>, <<"/", "a", ",", " ", "/", "b">>}),
        staging_paths \in Settable(<<"STAGING", "_", "PUBLIC_PATHS">>,
                                   {<<>>, <<"/", "b">>}),
        prod_paths \in Settable(<<"PROD", "_", "PUBLIC_PATHS">>, {<<"/", "c">>}),
        enabled \in Settable(<<"IPFILTER_ENABLED">>, {<<"False">>}),
        staging_enabled \in Settable(<<"STAGING", "_", "IPFILTER_ENABLED">>,
                                     {<<>>, <<"True">>}) }

EnvironKeys == {<<"PUBLIC_PATHS">>, <<"IPFILTER_ENABLED">>, <<"PROTECTED_PATHS">>}

EnvironDefaults == {PyNone, PyList(<<>>), PyBool(TRUE)}

\* Start-up with an environment from which settings.py builds the settings
InitEnviron ==
    /\ environ \in Environs
    /\ settings(environ).raised = ""
    /\ config = settings(environ).value
    /\ looked_up = NoLookup
    /\ pc = "idle"
    /\ request = NoRequest
    /\ client_ip = <<>>
    /\ headers_to_remove = {}
    /\ fetched = 0
    /\ ip_filter_rules = NoRules
    /\ response = NoResponse
    /\ agent_calls = 0
    /\ agent_answer = NoAnswer
    /\ origin_calls = 0
    /\ origin_request = NoRequest
    /\ origin_status = 0
    /\ allowed_before = FALSE
    /\ agent_docs = <<>>
    /\ stream = NoStream
    /\ compared = <<>>
    /\ warnings = NoWarnings
    /\ pool = NewPool

NextEnviron ==
    \/ GetValue(EnvironKeys, EnvironDefaults)
    \/ GetList(EnvironKeys, EnvironDefaults)
    \/ GetBool(EnvironKeys, EnvironDefaults)

SpecEnviron == InitEnviron /\ [][NextEnviron]_vars

\* Settings, requests and documents that exercise the comparisons of
\* lines 196-216
TokenSettings ==
    { Setting(enabled, <<ProfileId>>, <<>>, <<>>, <<>>, <<>>, <<>>, -2) :
        enabled \in BOOLEAN }

TokenRequests ==
    { Request(<<"/", "a">>, "a.test",
              Header(<<"X-Forwarded-For">>, XffEndingAtProxy(ip))
              \o cdn \o shared \o authorization \o CommonHeaders) :
        ip \in {"1.2.3.4", "junk"},
        cdn \in {<<>>} \cup
                { Header(<<"X-CDN-Secret">>, value) :
                    value \in {<<"a", "b">>, <<"a", "c">>, <<"c", "b">>, <<"a">>,
                               <<"a", "b", "c">>, <<>>} },
        shared \in {<<>>, Header(<<"X-Shared-Secret">>, <<"a", "c">>),
                    Header(<<"X-Shared-Secret">>, <<"a">>)},
        authorization \in
            {<<>>,
             Header(<<"Authorization">>, BasicCredentials(<<"a">>, <<"b">>)),
             Header(<<"Authorization">>, BasicCredentials(<<"a">>, <<"b", "b">>)),
             Header(<<"Authorization">>, BasicCredentials(<<"a", "b">>, <<"b">>))} }

TokenDocs ==
    { Doc({"IpRanges"}, <<<<"1.2.3.4/32">>>>, <<>>, <<>>),
      Doc({"IpRanges", "SharedTokens"}, <<<<"1.2.3.4/32">>>>, <<>>,
          <<CdnSecret, SharedSecret>>),
      Doc({"IpRanges", "SharedTokens"}, <<<<"1.2.3.4/32">>>>, <<>>,
          <<CdnSecret, SharedToken(<<"X-CDN-Secret">>, <<"a", "c">>)>>),
      Doc({"SharedTokens", "BasicAuth"}, <<>>, <<AuthOnB, AuthOnA>>,
          <<SharedToken(<<"X-Shared-Secret">>, <<"a">>), CdnSecret>>) }

TokenAnswers == AnswersWith(TokenDocs)

InitTokens == InitWith(TokenSettings)

NextTokens ==
    \/ Receive(TokenRequests)
    \/ FetchProfile(TokenAnswers)
    \/ Evaluate
    \/ OriginRequest(OriginAnswers)
    \/ StreamChunk
    \/ StreamEnd
    \/ StreamFails
    \/ CloseResponse
    \/ Finish

SpecTokens == InitTokens /\ [][NextTokens]_vars

\* the most requests handled at the same time as the one followed
MaxOthers == 10

\* Settings, requests and answers that exercise the upstream pool, line 56
PoolSettings ==
    { Setting(FALSE, <<>>, <<>>, <<>>, <<>>, <<>>, <<>>, -2) }

PoolRequests ==
    { [method  |-> method,
       path    |-> <<"/", "a">>,
       host    |-> "a.test",
       headers |-> Header(<<"X-Forwarded-For">>, XffEndingAtProxy("1.2.3.4"))
                   \o CommonHeaders,
       body    |-> <<>>] :
        method \in {"GET", "POST"} }

PoolOriginAnswers ==
    { [status |-> 0, headers |-> <<>>, body |-> <<>>],
      [status |-> 200, headers |-> Header(<<"Content-Type">>, <<"text/html">>),
       body |-> <<Run("a", 65536), Run("b", 1)>>] }

InitPool == InitWith(PoolSettings)

NextPool ==
    \/ Receive(PoolRequests)
    \/ OriginRequest(PoolOriginAnswers)
    \/ StreamChunk
    \/ StreamEnd
    \/ StreamFails
    \/ CloseResponse
    \/ Finish
    \/ OtherAcquires(MaxOthers)
    \/ OtherReleases

SpecPool == InitPool /\ [][NextPool]_vars

\* Requests whose upload the client finishes, and one it does not: half of the
\* 200000 bytes it announced
UploadFramings ==
    { [headers |-> <<>>, body |-> <<>>],
      [headers |-> Header(<<"Content-Length">>, <<"3">>), body |-> <<Run("a", 3)>>],
      [headers |-> Header(<<"content-length">>, <<"200000">>),
       body |-> <<Run("-", 100000)>>] }

UploadRequests ==
    { [method  |-> method,
       path    |-> <<"/">>,
       host    |-> "a.test",
       headers |-> Header(<<"X-Forwarded-For">>, XffEndingAtProxy("1.2.3.4"))
                   \o framing.headers \o CommonHeaders,
       body    |-> framing.body] :
        method \in {"GET", "POST"}, framing \in UploadFramings }

InitUpload == InitWith(BodySettings)

NextUpload ==
    \/ Receive(UploadRequests)
    \/ FetchProfile(BodyAnswers)
    \/ Evaluate
    \/ OriginRequest(BodyOriginAnswers)
    \/ OriginRequestUnfinished
    \/ ClientDisconnects
    \/ StreamChunk
    \/ StreamEnd
    \/ StreamFails
    \/ CloseResponse
    \/ Finish

SpecUpload == InitUpload /\ [][NextUpload]_vars

\* Environments that exercise the start-up, settings.py lines 17-60
StartupEnvirons ==
    { (EnvKey("COPILOT_ENVIRONMENT_NAME") :> <<"staging">>)
      @@ (EnvKey("EMAIL") :> <<"test@test.test">>)
      @@ server @@ index @@ staging_index @@ enabled @@ staging_enabled
      @@ debug @@ staging_debug @@ proto @@ staging_proto @@ paths
      @@ staging_paths @@ lists :
        server \in Settable(<<"SERVER">>, {<<"localhost:8081">>}),
        index \in Settable(<<"IP_DETERMINED_BY_X_FORWARDED_FOR_INDEX">>,
                           {<<"-1">>, <<" ", "1", " ">>, <<"x">>, <<>>}),
        staging_index \in Settable(<<"STAGING", "_", "IP_DETERMINED_BY_X_FORWARDED_FOR_INDEX">>,
                                   {<<"0">>}),
        enabled \in Settable(<<"IPFILTER_ENABLED">>,
                             {<<"True">>, <<"yes">>, <<" ", "TRUE">>}),
        staging_enabled \in Settable(<<"STAGING", "_", "IPFILTER_ENABLED">>,
                                     {<<"False">>, <<"1">>}),
        debug \in Settable(<<"DEBUG">>, {<<"True">>}),
        staging_debug \in Settable(<<"STAGING", "_", "DEBUG">>, {<<"False">>}),
        proto \in Settable(<<"SERVER_PROTO">>, {<<"http">>}),
        staging_proto \in Settable(<<"STAGING", "_", "SERVER_PROTO">>, {<<"https">>}),
        paths \in Settable(<<"PUBLIC_PATHS">>, {<<"/", "a">>}),
        staging_paths \in Settable(<<"STAGING", "_", "PUBLIC_PATHS">>, {<<"/", "b">>}),
        lists \in
            { NothingSet,
              (<<"APPCONFIG_PROFILES">> :> ProfileId)
              @@ (<<"STAGING", "_", "APPCONFIG_PROFILES">> :> OtherProfileId)
              @@ (<<"PROTECTED_PATHS">> :> <<"/", "a">>)
              @@ (<<"STAGING", "_", "PROTECTED_PATHS">> :> <<>>)
              @@ (<<"PUB_HOST_LIST">> :> <<"a.test">>)
              @@ (<<"STAGING", "_", "PUB_HOST_LIST">> :> <<"b.test">>)
              @@ (<<"PRIV_HOST_LIST">> :> <<"a.test">>)
              @@ (<<"STAGING", "_", "PRIV_HOST_LIST">> :> <<"a.test", ",", "b.test">>)
              @@ (<<"ADDITIONAL_IP_LIST">> :> <<"1.2.3.4">>)
              @@ (<<"STAGING", "_", "ADDITIONAL_IP_LIST">> :> <<"1.1.1.0/31">>) } }

\* The process before settings.py has run
InitStartup ==
    /\ environ \in StartupEnvirons
    /\ config = NoSettings
    /\ looked_up = NoLookup
    /\ pc = "start"
    /\ request = NoRequest
    /\ client_ip = <<>>
    /\ headers_to_remove = {}
    /\ fetched = 0
    /\ ip_filter_rules = NoRules
    /\ response = NoResponse
    /\ agent_calls = 0
    /\ agent_answer = NoAnswer
    /\ origin_calls = 0
    /\ origin_request = NoRequest
    /\ origin_status = 0
    /\ allowed_before = FALSE
    /\ agent_docs = <<>>
    /\ stream = NoStream
    /\ compared = <<>>
    /\ warnings = NoWarnings
    /\ pool = NewPool

NextStartup == Startup

SpecStartup == InitStartup /\ [][NextStartup]_vars

-----------------------------------------------------------------------------
(* Properties                                                              *)

XForwardedFor == HeaderGet(request.headers, <<"X-Forwarded-For">>)

\* a request is being handled, or has just been answered
InRequest == pc # "idle"

\* the request carries X-Forwarded-For and the configured index is in range
WellFormedRequest ==
    /\ InRequest
    /\ HasHeader(request.headers, <<"X-Forwarded-For">>)
    /\ config.IP_DETERMINED_BY_X_FORWARDED_FOR_INDEX < Len(Split(XForwardedFor, ","))
    /\ config.IP_DETERMINED_BY_X_FORWARDED_FOR_INDEX >= -Len(Split(XForwardedFor, ","))

\* the 403 of a malformed request: no client IP, nothing contacted
AnsweredAsMalformed ==
    /\ pc = "done"
    /\ response.status = 403
    /\ response.page = "access-denied.html"
    /\ response.client_ip = Unknown
    /\ agent_calls = 0
    /\ origin_calls = 0

\* the 403 denial page, with the origin left alone
Denied ==
    /\ response.status = 403
    /\ response.page = "access-denied.html"
    /\ origin_calls = 0

\* the request was enforced and get_ipfilter_config returned its rules
Evaluated ==
    /\ pc = "done"
    /\ Classify(config, request) = "enforce"
    /\ fetched = Len(config.APPCONFIG_PROFILES)

ClientInWhitelist == ip_in_whitelist(config, ip_filter_rules, client_ip) = "true"

\* some configured token's header is on the request with an equal value
SomeTokenPresented ==
    \E i \in 1..Len(ip_filter_rules.shared_tokens) :
        LET token == ip_filter_rules.shared_tokens[i] IN
        /\ HasHeader(request.headers, token.HeaderName.v)
        /\ HeaderGet(request.headers, token.HeaderName.v) = token.Value.v

TokenChecksPassed == ip_filter_rules.shared_tokens = <<>> \/ SomeTokenPresented

\* the request's Basic credentials are those of the entry
CredentialsMatch(entry) ==
    /\ Authorization(request.headers).given
    /\ Authorization(request.headers).username = entry.Username.v
    /\ Authorization(request.headers).password = entry.Password.v

\* the BasicAuth entries whose Path is exactly the request path
EntriesOnPath ==
    {i \in 1..Len(ip_filter_rules.auth) : ip_filter_rules.auth[i].Path.v = request.path}

\* C1: a request with no X-Forwarded-For whose User-Agent does not start with
\* ELB-HealthChecker is answered 403 with client IP "Unknown", and neither the
\* agent nor the origin is contacted, whatever the settings.
C1_MissingXffDenied ==
    (/\ InRequest
     /\ ~HasHeader(request.headers, <<"X-Forwarded-For">>)
     /\ ~StartsWith(HeaderGet(request.headers, <<"User-Agent">>), <<"ELB-HealthChecker">>))
    => AnsweredAsMalformed

C1_Witness ==
    /\ pc = "done"
    /\ ~HasHeader(request.headers, <<"X-Forwarded-For">>)
    /\ HeaderGet(request.headers, <<"User-Agent">>) = <<"curl">>
    /\ ~config.IPFILTER_ENABLED
    /\ config.PUBLIC_PATHS # <<>>
    /\ AnyStartsWith(request.path, config.PUBLIC_PATHS)
    /\ response.status = 403

\* C2 (as claimed): an enforced request whose client IP is not in the whitelist
\* or whose shared-token checks did not pass is answered 403, never 401, never
\* the "ok" page, never forwarded, whatever its path and credentials.
C2_NotWhitelistedAlways403 ==
    (Evaluated /\ (~ClientInWhitelist \/ ~TokenChecksPassed)) => Denied

\* C3: a well-formed request skips the evaluation (no policy fetch, straight to
\* the origin) exactly when, after conflict resolution, the filter is disabled,
\* or the path is public, or protected paths exist and the path is none of
\* them, or the host is public (and the path is not protected), or private
\* hosts exist and the host is none of them.
C3_BypassCondition ==
    LET protected == IF config.PUBLIC_PATHS # <<>> THEN <<>> ELSE config.PROTECTED_PATHS
        priv      == IF config.PUB_HOST_LIST # <<>> THEN <<>> ELSE config.PRIV_HOST_LIST
        is_protected == \E i \in 1..Len(protected) : StartsWith(request.path, protected[i])
    IN  \/ ~config.IPFILTER_ENABLED
        \/ \E i \in 1..Len(config.PUBLIC_PATHS) :
               StartsWith(request.path, config.PUBLIC_PATHS[i])
        \/ protected # <<>> /\ ~is_protected
        \/ /\ InList(request.host, config.PUB_HOST_LIST)
           /\ (protected # <<>> => ~is_protected)
        \/ priv # <<>> /\ ~InList(request.host, priv)

C3_SkipsEvaluation ==
    /\ agent_calls = 0
    /\ pc \in {"origin", "stream", "close"} \/ (pc = "done" /\ origin_calls = 1)

C3_Classification ==
    WellFormedRequest =>
        /\ C3_SkipsEvaluation <=> C3_BypassCondition
        /\ ~C3_SkipsEvaluation => (pc = "fetch" \/ agent_calls > 0)

C3_Witness ==
    /\ pc = "done"
    /\ WellFormedRequest
    /\ config.IPFILTER_ENABLED
    /\ config.PUBLIC_PATHS # <<>>
    /\ config.PROTECTED_PATHS # <<>>
    /\ InList(request.host, config.PUB_HOST_LIST)
    /\ ~AnyStartsWith(request.path, config.PUBLIC_PATHS)
    /\ C3_SkipsEvaluation

C5_AuthOk ==
    Evaluated =>
        /\ (response.status = 200 /\ response.page = "ok") <=>
              /\ \E i \in EntriesOnPath : CredentialsMatch(ip_filter_rules.auth[i])
              /\ ClientInWhitelist
              /\ TokenChecksPassed
        /\ response.page = "ok" => origin_calls = 0

C5_Witness ==
    /\ Evaluated
    /\ response.page = "ok"
    /\ Cardinality(EntriesOnPath) = 2
    /\ \E i \in EntriesOnPath : ~CredentialsMatch(ip_filter_rules.auth[i])

\* C6 (as claimed): an enforced request neither challenged nor answered "ok" is
\* forwarded exactly when the client IP is in the whitelist, the token checks
\* passed and (no BasicAuth entry is configured or the credentials match some
\* entry, on any path); otherwise it gets the 403 denial page.
C6_AllChecks ==
    /\ ClientInWhitelist
    /\ TokenChecksPassed
    /\ \/ ip_filter_rules.auth = <<>>
       \/ \E i \in 1..Len(ip_filter_rules.auth) : CredentialsMatch(ip_filter_rules.auth[i])

C6_ForwardedOr403 ==
    (Evaluated /\ response.status # 401 /\ response.page # "ok") =>
        /\ origin_calls = 1 <=> C6_AllChecks
        /\ ~C6_AllChecks => Denied

\* C7: for an enforced request, after any earlier requests, a failed fetch or a
\* failed validation of a profile gives 403 with the origin left alone, and
\* every request starts from empty rules.
C7_FailedFetchDenies ==
    /\ (/\ pc = "done"
        /\ agent_calls > 0
        /\ (agent_answer.status # 200 \/ ~SchemaValid(agent_answer.doc)))
       => Denied
    /\ (pc = "fetch" /\ fetched = 0) => ip_filter_rules = NoRules

C7_Witness ==
    /\ pc = "done"
    /\ allowed_before
    /\ agent_calls = 2
    /\ agent_answer.status = 404
    /\ ClientInWhitelist
    /\ Denied

\* C8 (as claimed): while IPFILTER_ENABLED is false, the status of every
\* response equals the status the origin returned for that request.
C8_DisabledAlwaysOriginStatus ==
    (pc = "done" /\ ~config.IPFILTER_ENABLED) =>
        /\ origin_calls = 1
        /\ origin_status # 0
        /\ response.status = origin_status

\* C8 (amended): while IPFILTER_ENABLED is false, a request with
\* X-Forwarded-For and the index in range is sent to the origin without a
\* policy fetch, and the response has the origin's status when the origin
\* answers (500 when the origin cannot be reached).
C8_DisabledWellFormedOriginStatus ==
    (pc = "done" /\ ~config.IPFILTER_ENABLED /\ WellFormedRequest) =>
        /\ origin_calls = 1
        /\ agent_calls = 0
        /\ origin_status # 0 => response.status = origin_status
        /\ origin_status = 0 => response.status = 500

C8_Witness ==
    /\ pc = "done"
    /\ ~config.IPFILTER_ENABLED
    /\ WellFormedRequest
    /\ origin_status = 404
    /\ response.status = 404

\* C9 (as claimed): the headers sent to the origin are the inbound headers
\* minus those named connection or as a configured shared token, for enforced
\* and bypassed requests alike; connection reaches neither the origin nor the
\* client.
C9_ExpectedAtOrigin ==
    HeadersExcept(request.headers,
                  {Lower(ip_filter_rules.shared_tokens[i].HeaderName.v) :
                       i \in 1..Len(ip_filter_rules.shared_tokens)}
                  \cup {<<"connection">>})

C9_HeadersAtOrigin ==
    origin_calls = 1 =>
        /\ origin_request.headers = C9_ExpectedAtOrigin
        /\ ~HasHeader(origin_request.headers, <<"Connection">>)
        /\ ~HasHeader(response.headers, <<"Connection">>)

\* C10: with X-Forwarded-For split on "," into n elements and index i, the
\* request is malformed exactly when i >= n or i < -n; otherwise the client IP
\* is element i, negative i counting from the right, stripped of whitespace.
C10_XffIndex ==
    (InRequest /\ HasHeader(request.headers, <<"X-Forwarded-For">>)) =>
        LET parts == Split(XForwardedFor, ",")
            n == Len(parts)
            i == config.IP_DETERMINED_BY_X_FORWARDED_FOR_INDEX
        IN  /\ AnsweredAsMalformed <=> (i >= n \/ i < -n)
            /\ ~(i >= n \/ i < -n) =>
                   client_ip = Strip(parts[IF i >= 0 THEN i + 1 ELSE n + i + 1])

C10_Witness ==
    /\ InRequest
    /\ XForwardedFor = <<" ", "1.1.1.1", ",">>
    /\ config.IP_DETERMINED_BY_X_FORWARDED_FOR_INDEX = -2
    /\ client_ip = <<"1.1.1.1">>

\* the request went to the origin without get_ipfilter_config being called
Bypassed ==
    /\ headers_to_remove = {}
    /\ pc \in {"origin", "stream", "close"} \/ (pc = "done" /\ origin_calls = 1)

\* the path the request in progress has taken through lines 100-170
Taken ==
    CASE ~InRequest -> "none"
      [] InRequest /\ Bypassed -> "bypass"
      [] InRequest /\ ~Bypassed /\ AnsweredAsMalformed -> "malformed"
      [] InRequest /\ ~Bypassed /\ ~AnsweredAsMalformed /\ pc = "done"
            /\ response = Plain("OK") /\ agent_calls = 0 -> "health"
      [] OTHER -> "enforce"

\* C11: a request with no X-Forwarded-For whose User-Agent starts with
\* ELB-HealthChecker is answered 200 with body "OK", and neither the agent nor
\* the origin is contacted.
C11_HealthCheck ==
    (/\ InRequest
     /\ ~HasHeader(request.headers, <<"X-Forwarded-For">>)
     /\ StartsWith(HeaderGet(request.headers, <<"User-Agent">>), <<"ELB-HealthChecker">>))
    => /\ pc = "done"
       /\ response.status = 200
       /\ response.page = "OK"
       /\ agent_calls = 0
       /\ origin_calls = 0

C11_Witness ==
    /\ pc = "done"
    /\ ~HasHeader(request.headers, <<"X-Forwarded-For">>)
    /\ HeaderGet(request.headers, <<"User-Agent">>) = <<"ELB-HealthChecker", "/", "2.0">>
    /\ config.IPFILTER_ENABLED
    /\ response.page = "OK"

\* C12: with PUBLIC_PATHS and PROTECTED_PATHS both non-empty a request takes the
\* path it would take with PROTECTED_PATHS empty, and with PUB_HOST_LIST and
\* PRIV_HOST_LIST both non-empty the path it would take with PRIV_HOST_LIST
\* empty.
C12_ConflictsAsEmpty ==
    InRequest =>
        /\ (config.PUBLIC_PATHS # <<>> /\ config.PROTECTED_PATHS # <<>>) =>
               Taken = Classify([config EXCEPT !.PROTECTED_PATHS = <<>>], request)
        /\ (config.PUB_HOST_LIST # <<>> /\ config.PRIV_HOST_LIST # <<>>) =>
               Taken = Classify([config EXCEPT !.PRIV_HOST_LIST = <<>>], request)

C12_Witness ==
    /\ pc = "done"
    /\ config.PUBLIC_PATHS # <<>>
    /\ config.PROTECTED_PATHS # <<>>
    /\ config.PUB_HOST_LIST # <<>>
    /\ config.PRIV_HOST_LIST # <<>>
    /\ ~AnyStartsWith(request.path, config.PUBLIC_PATHS)
    /\ ~AnyStartsWith(request.path, config.PROTECTED_PATHS)
    /\ ~InList(request.host, config.PRIV_HOST_LIST)
    /\ Taken = "enforce"
    /\ agent_calls = 1

\* get_ipfilter_config raised while handling the profile after the fetched ones
FetchFailed ==
    /\ pc = "done"
    /\ Classify(config, request) = "enforce"
    /\ fetched < Len(config.APPCONFIG_PROFILES)

\* C13: the 403 for a profile whose fetch failed carries the text of the
\* failure after the denial page; the 403 for a profile that failed schema
\* validation carries the denial page alone.
C13_ReasonOnlyForFetchFailure ==
    FetchFailed =>
        LET config_path == config.APPCONFIG_PROFILES[fetched + 1]
            answered == agent_calls = fetched + 1
        IN  /\ Denied
            /\ response.client_ip = client_ip
            /\ (answered /\ agent_answer.status = 200) =>
                   (~SchemaValid(agent_answer.doc) /\ response.reason = <<>>)
            /\ (answered /\ agent_answer.status = 404) =>
                   response.reason = <<"AppConfig for ">> \o config_path \o <<" not found.">>
            /\ (answered /\ agent_answer.status = 0) => response.reason # <<>>
            /\ ~answered => (agent_calls = fetched /\ response.reason # <<>>)

C13_Witness ==
    /\ FetchFailed
    /\ fetched = 1
    /\ agent_calls = 2
    /\ agent_answer.status = 200
    /\ "IpRanges" \in agent_answer.doc.keys
    /\ response.reason = <<>>

\* the entries of one section of the documents, in the order of the documents
RECURSIVE C14_Sections(_, _)
C14_Sections(docs, section) ==
    IF docs = <<>> THEN <<>>
    ELSE (IF section \in Head(docs).doc.keys THEN Head(docs).doc[section] ELSE <<>>)
         \o C14_Sections(Tail(docs), section)

\* C14: the ips, auth and shared_tokens that get_ipfilter_config has collected,
\* and returns after the last profile, are the IpRanges, BasicAuth and
\* SharedTokens entries of the documents fetched, concatenated in the order of
\* APPCONFIG_PROFILES and in document order; a missing section and any other
\* key contribute nothing.
C14_Concatenation ==
    (InRequest /\ fetched = Len(agent_docs)) =>
        /\ ip_filter_rules.ips = C14_Sections(agent_docs, "IpRanges")
        /\ ip_filter_rules.auth = C14_Sections(agent_docs, "BasicAuth")
        /\ ip_filter_rules.shared_tokens = C14_Sections(agent_docs, "SharedTokens")
        /\ \A i \in 1..Len(agent_docs) :
               agent_docs[i].path = config.APPCONFIG_PROFILES[i]
        /\ (pc = "fetch" \/ fetched = Len(config.APPCONFIG_PROFILES)
            \/ agent_answer.status # 200 \/ agent_calls = 0)

C14_Witness ==
    /\ pc = "done"
    /\ fetched = 2
    /\ Len(agent_docs) = 2
    /\ agent_docs[1].doc.keys = {"IpRanges", "Other"}
    /\ Len(agent_docs[2].doc.IpRanges) = 2
    /\ Len(agent_docs[2].doc.BasicAuth) = 2
    /\ ip_filter_rules.ips = <<<<"1.1.1.1">>, <<"1.2.3.4/32">>, <<"1.1.1.0/31">>>>
    /\ response.page = "ok"

\* an IpRanges entry that is no IPv4 network or has host bits set
C15_BadNetwork(entry) ==
    \/ Len(entry) # 1
    \/ /\ AddressLiteral(entry[1]) = -1
       /\ \/ NetworkLiteral(entry[1]) = <<-1, -1>>
          \/ NetworkLiteral(entry[1])[1] % Pow2(32 - NetworkLiteral(entry[1])[2]) # 0

\* the sections of a document, with the key inside the entry for BasicAuth,
\* that the schema rejects
C15_Offending(doc) ==
    {<<"IpRanges">> : x \in {i \in 1..Len(doc.IpRanges) :
         "IpRanges" \in doc.keys /\ C15_BadNetwork(doc.IpRanges[i])}}
    \cup
    {<<"BasicAuth", k>> : k \in {j \in {"Path", "Username", "Password"} :
         /\ "BasicAuth" \in doc.keys
         /\ \E i \in 1..Len(doc.BasicAuth) : doc.BasicAuth[i][j].t # "str"}}

\* C15: when the agent serves a document with an IpRanges entry that is no
\* network or has host bits set (1.1.1.1/16), or with a BasicAuth entry whose
\* Path, Username or Password is missing or no string, get_ipfilter_config
\* raises ValidationError with the profile's path and the key in its text, and
\* no rules are returned: the request is denied without evaluation. 1.1.1.1/32
\* is accepted.
C15_InvalidDocumentRejected ==
    /\ (/\ InRequest
        /\ agent_calls > 0
        /\ agent_answer.status = 200
        /\ C15_Offending(agent_answer.doc) # {})
       => /\ pc = "done"
          /\ Denied
          /\ fetched = agent_calls - 1
          /\ headers_to_remove = {}
          /\ LET path == config.APPCONFIG_PROFILES[fetched + 1]
                 e == FetchAndValidate(path, agent_answer)
                 named == {e.text[i] : i \in 1..Len(e.text)}
             IN  /\ e.raised = "ValidationError"
                 /\ Len(e.text) > Len(path)
                 /\ SubSeq(e.text, Len(e.text) - Len(path) + 1, Len(e.text)) = path
                 /\ \A keys \in C15_Offending(agent_answer.doc) :
                        \A i \in 1..Len(keys) : keys[i] \in named
    /\ (/\ InRequest
        /\ agent_calls > 0
        /\ agent_answer.status = 200
        /\ agent_answer.doc.IpRanges = <<<<"1.1.1.1/32">>>>)
       => fetched = agent_calls

C15_Witness ==
    /\ pc = "done"
    /\ agent_calls = 2
    /\ fetched = 1
    /\ config.APPCONFIG_PROFILES = <<ProfileId, OtherProfileId>>
    /\ agent_answer.status = 200
    /\ agent_answer.doc.IpRanges = <<<<"1.2.3.4/32">>, <<"1.1.1.1/16">>>>
    /\ ip_filter_rules.ips # <<>>
    /\ Denied

\* http.request has been called for the request in progress
SentToOrigin == InRequest /\ origin_calls > 0

\* the inbound request has Content-Length or chunked framing
InboundFramed ==
    \/ HasHeader(request.headers, <<"Content-Length">>)
    \/ HeaderGet(request.headers, <<"Transfer-Encoding">>) \in
           {<<"chunked">>, <<"Chunked">>, <<"CHUNKED">>}

\* C16: the request sent to the origin is given a body exactly when the
\* inbound request has a Content-Length header or Transfer-Encoding chunked
\* (in any case of letters); with neither, it has no body and no
\* Transfer-Encoding that the inbound request did not have; a Content-Length: 0
\* request goes out with Content-Length: 0 and without Transfer-Encoding.
C16_BodyIffFramed ==
    SentToOrigin =>
        /\ origin_request.body_given <=> InboundFramed
        /\ ~InboundFramed =>
               /\ origin_request.body = <<>>
               /\ ~origin_request.transfer_encoding_added
               /\ HasHeader(origin_request.headers, <<"Transfer-Encoding">>)
                      => HasHeader(request.headers, <<"Transfer-Encoding">>)
        /\ HeaderGet(request.headers, <<"Content-Length">>) = <<"0">> =>
               /\ HeaderGet(origin_request.headers, <<"Content-Length">>) = <<"0">>
               /\ ~HasHeader(origin_request.headers, <<"Transfer-Encoding">>)
               /\ ~origin_request.transfer_encoding_added

C16_Witness ==
    /\ pc = "done"
    /\ SentToOrigin
    /\ request.method = "POST"
    /\ HeaderGet(request.headers, <<"Transfer-Encoding">>) = <<"Chunked">>
    /\ origin_request.body_given
    /\ origin_request.body = <<Run("b", 2)>>
    /\ config.IPFILTER_ENABLED

\* C17: for every method, the body of a request with Content-Length or chunked
\* framing, read in chunks of at most 65,536 bytes up to the first empty read,
\* reaches the origin byte for byte; and the client receives the bytes of the
\* origin's body, in order: all of them when the streaming ends without
\* failure, a prefix of them until then.
C17_BodiesRoundTrip ==
    /\ (SentToOrigin /\ origin_status # 0 /\ InboundFramed) =>
           origin_request.body = request.body
    /\ InRequest => stream.sent = Take(stream.body, BytesLen(stream.sent))
    /\ (pc \in {"close", "done"} /\ origin_status # 0 /\ ~stream.failed) =>
           stream.sent = stream.body

C17_Witness ==
    /\ pc = "done"
    /\ request.method = "PUT"
    /\ request.body = <<Run("a", 40000), Run("b", 65537)>>
    /\ origin_request.body = request.body
    /\ origin_status = 200
    /\ ~stream.failed
    /\ stream.sent = <<Run("a", 65536), Run("b", 40000)>>

\* C18: when the origin cannot be reached, the client receives 500 after
\* exactly one attempt, and the connection is not left checked out; no
\* redirect is followed either, so every proxied request is sent once.
C18_TransportFailure ==
    /\ (SentToOrigin /\ origin_status = 0) =>
           /\ pc = "done"
           /\ response.status = 500
           /\ origin_calls = 1
           /\ stream.conn # "out"
    /\ SentToOrigin => origin_calls = 1

C18_Witness ==
    /\ pc = "done"
    /\ SentToOrigin
    /\ origin_status = 0
    /\ request.method = "POST"
    /\ request.body # <<>>
    /\ response.status = 500
    /\ stream.conn = "pooled"

\* the upstream connection of a closed response is back in the pool, put
\* there once, and none is held outside the streaming of a response
C19_ReleasedOnClose ==
    /\ stream.puts <= 1
    /\ (pc = "done" /\ origin_calls > 0) => (stream.conn = "pooled" /\ stream.puts = 1)
    /\ stream.conn = "out" => pc \in {"stream", "close"}
    /\ pc = "idle" => stream.conn = "none"

\* C19: the upstream connection obtained for a proxied request goes back to the
\* pool when the downstream response is closed, whether the body was streamed
\* to its end or streaming failed, once per request, and none stays checked
\* out after the request has ended; a connection that is out is given back.
C19_ConnectionReleased ==
    /\ []C19_ReleasedOnClose
    /\ (stream.conn = "out") ~> (stream.conn = "pooled")

C19_Witness ==
    /\ pc = "done"
    /\ stream.failed
    /\ stream.sent = <<Run("a", 40000)>>
    /\ stream.conn = "pooled"
    /\ stream.puts = 1

\* <UPPER(E)>_K for the environment names staging and Staging
C20_Override(key) == <<"STAGING", "_">> \o key

\* the override of the key looked up is set and the call allows overrides
C20_Overridden ==
    /\ looked_up.allow
    /\ C20_Override(looked_up.key) \in DOMAIN environ

\* C20: get_value(K, allow_environment_override=True) returns the text of
\* <UPPER(E)>_K whenever that variable is set, the empty text included (list()
\* then gives [] whatever K holds); otherwise the text of K; otherwise the
\* default; and raises KeyError when there is none of the three. Without
\* allow_environment_override the variable <UPPER(E)>_K is not looked at.
C20_GetValue ==
    /\ looked_up.call = "get_value" =>
        /\ C20_Overridden =>
               looked_up.result = Returned(PyStr(environ[C20_Override(looked_up.key)]))
        /\ (~C20_Overridden /\ looked_up.key \in DOMAIN environ) =>
               looked_up.result = Returned(PyStr(environ[looked_up.key]))
        /\ (~C20_Overridden /\ looked_up.key \notin DOMAIN environ
                /\ looked_up.default.t # "none") =>
               looked_up.result = Returned(looked_up.default)
        /\ (~C20_Overridden /\ looked_up.key \notin DOMAIN environ
                /\ looked_up.default.t = "none") =>
               looked_up.result.raised = "KeyError"
    /\ (/\ looked_up.call = "list"
        /\ C20_Overridden
        /\ environ[C20_Override(looked_up.key)] = <<>>) =>
           looked_up.result = Returned(PyList(<<>>))

C20_Witness ==
    /\ looked_up.call = "list"
    /\ looked_up.allow
    /\ looked_up.key = <<"PUBLIC_PATHS">>
    /\ environ[EnvKey("COPILOT_ENVIRONMENT_NAME")] = <<"Staging">>
    /\ <<"STAGING", "_", "PUBLIC_PATHS">> \in DOMAIN environ
    /\ environ[<<"STAGING", "_", "PUBLIC_PATHS">>] = <<>>
    /\ <<"PUBLIC_PATHS">> \in DOMAIN environ
    /\ environ[<<"PUBLIC_PATHS">>] = <<"/", "a">>
    /\ looked_up.result = Returned(PyList(<<>>))
    /\ config.PUBLIC_PATHS = <<>>

\* settings.py has been run
C21_Started == looked_up.call = "settings"

\* the variables that settings.py reads with env[...] are set
C21_RequiredSet ==
    /\ <<"SERVER">> \in DOMAIN environ
    /\ <<"EMAIL">> \in DOMAIN environ

\* the text is a decimal integer with an optional sign, blanks around it allowed
C21_SignedInteger(text) == Strip(text) \in {<<DecimalText(n)>> : n \in -7..7}

\* IP_DETERMINED_BY_X_FORWARDED_FOR_INDEX is set to a text that is no integer
C21_MalformedIndex ==
    /\ <<"IP_DETERMINED_BY_X_FORWARDED_FOR_INDEX">> \in DOMAIN environ
    /\ ~C21_SignedInteger(environ[<<"IP_DETERMINED_BY_X_FORWARDED_FOR_INDEX">>])

\* the text IPFILTER_ENABLED is read from: the override when set, else the key
C21_EnabledText ==
    IF C20_Override(<<"IPFILTER_ENABLED">>) \in DOMAIN environ
    THEN <<environ[C20_Override(<<"IPFILTER_ENABLED">>)]>>
    ELSE IF <<"IPFILTER_ENABLED">> \in DOMAIN environ
    THEN <<environ[<<"IPFILTER_ENABLED">>]>>
    ELSE <<>>

\* a boolean key is set to a text other than True and False
C21_MalformedBoolean ==
    /\ C21_EnabledText # <<>>
    /\ C21_EnabledText[1] \notin {<<"True">>, <<"False">>}

\* C21 as stated: the start-up fails when the numeric key holds a text that is
\* no signed integer, and when a boolean key holds a text other than True or
\* False.
C21_MalformedFailsStartup ==
    (C21_Started /\ (C21_MalformedIndex \/ C21_MalformedBoolean)) => pc = "exit"

\* C21, amended: the start-up fails, with ValueError when the required keys are
\* set, when the numeric key holds a text that is no signed integer. A boolean
\* key never makes it fail: its text is read as true when it is "true" once
\* stripped and lower-cased, and as false otherwise.
C21_MalformedNumberFailsBooleanReadsFalse ==
    C21_Started =>
        /\ C21_MalformedIndex => pc = "exit"
        /\ (C21_MalformedIndex /\ C21_RequiredSet) => looked_up.result.raised = "ValueError"
        /\ (C21_RequiredSet /\ ~C21_MalformedIndex) =>
            /\ pc = "idle"
            /\ config.IPFILTER_ENABLED =
                   (IF C21_EnabledText = <<>> THEN TRUE
                    ELSE Lower(Strip(C21_EnabledText[1])) = <<"true">>)
            /\ config.DEBUG =
                   (IF <<"DEBUG">> \in DOMAIN environ
                    THEN Lower(Strip(environ[<<"DEBUG">>])) = <<"true">>
                    ELSE FALSE)

C21_Witness ==
    /\ C21_Started
    /\ C21_RequiredSet
    /\ ~C21_MalformedIndex
    /\ C21_EnabledText = <<<<"yes">>>>
    /\ pc = "idle"
    /\ ~config.IPFILTER_ENABLED

\* the keys settings.py reads with allow_environment_override
C28_Overridable ==
    {<<"IPFILTER_ENABLED">>, <<"APPCONFIG_PROFILES">>, <<"PUBLIC_PATHS">>,
     <<"PROTECTED_PATHS">>, <<"PUB_HOST_LIST">>, <<"PRIV_HOST_LIST">>,
     <<"ADDITIONAL_IP_LIST">>}

\* the keys C28 says take their value from the override
C28_Claimed ==
    C28_Overridable
        \cup {<<"IP_DETERMINED_BY_X_FORWARDED_FOR_INDEX">>, <<"SERVER_PROTO">>, <<"DEBUG">>}

\* the environment in which each of the keys holds the text of its override,
\* where that is set, and the overrides of the keys are gone
C28_Effective(data, keys) ==
    LET overridden == {k \in keys : C20_Override(k) \in DOMAIN data}
        kept == (DOMAIN data \ {C20_Override(k) : k \in keys}) \cup overridden
    IN  [k \in kept |-> IF k \in overridden THEN data[C20_Override(k)] ELSE data[k]]

\* the start-up went as it goes when each of the keys is read from its override
C28_BuiltFrom(keys) ==
    C21_Started =>
        LET built == settings(C28_Effective(environ, keys)) IN
        /\ (pc = "exit") <=> (built.raised # "")
        /\ pc = "idle" => config = built.value

\* C28 as stated: IP_DETERMINED_BY_X_FORWARDED_FOR_INDEX, SERVER_PROTO and DEBUG
\* too take their value from <ENV_UPPER>_KEY when that is set.
C28_EveryKeyOverridable == C28_BuiltFrom(C28_Claimed)

\* C28, amended: IPFILTER_ENABLED, APPCONFIG_PROFILES, PUBLIC_PATHS,
\* PROTECTED_PATHS, PUB_HOST_LIST, PRIV_HOST_LIST and ADDITIONAL_IP_LIST take
\* their value from <ENV_UPPER>_KEY when that is set, in preference to KEY;
\* IP_DETERMINED_BY_X_FORWARDED_FOR_INDEX, SERVER_PROTO and DEBUG are read from
\* KEY alone, whatever <ENV_UPPER>_KEY holds.
C28_SevenKeysOverridable ==
    /\ C28_BuiltFrom(C28_Overridable)
    /\ (C21_Started /\ pc = "idle") =>
        /\ config.DEBUG =
               (IF <<"DEBUG">> \in DOMAIN environ
                THEN Lower(Strip(environ[<<"DEBUG">>])) = <<"true">>
                ELSE FALSE)
        /\ config.SERVER_PROTO =
               (IF <<"SERVER_PROTO">> \in DOMAIN environ
                THEN environ[<<"SERVER_PROTO">>]
                ELSE <<"http">>)
        /\ <<DecimalText(config.IP_DETERMINED_BY_X_FORWARDED_FOR_INDEX)>> =
               (IF <<"IP_DETERMINED_BY_X_FORWARDED_FOR_INDEX">> \in DOMAIN environ
                THEN Strip(environ[<<"IP_DETERMINED_BY_X_FORWARDED_FOR_INDEX">>])
                ELSE <<"-2">>)

C28_Witness ==
    /\ C21_Started
    /\ pc = "idle"
    /\ <<"DEBUG">> \in DOMAIN environ
    /\ <<"STAGING", "_", "DEBUG">> \in DOMAIN environ
    /\ config.DEBUG
    /\ <<"STAGING", "_", "SERVER_PROTO">> \in DOMAIN environ
    /\ config.SERVER_PROTO = <<"http">>
    /\ <<"STAGING", "_", "IP_DETERMINED_BY_X_FORWARDED_FOR_INDEX">> \in DOMAIN environ
    /\ config.IP_DETERMINED_BY_X_FORWARDED_FOR_INDEX = -2
    /\ <<"PUBLIC_PATHS">> \in DOMAIN environ
    /\ <<"STAGING", "_", "PUBLIC_PATHS">> \in DOMAIN environ
    /\ config.PUBLIC_PATHS = <<<<"/", "b">>>>
    /\ config.PRIV_HOST_LIST = <<"a.test", "b.test">>

\* lines 182-271 have run to a verdict for the request in progress
C22_Compared ==
    /\ InRequest
    /\ Classify(config, request) = "enforce"
    /\ fetched = Len(config.APPCONFIG_PROFILES)
    /\ pc # "fetch"
    /\ ip_in_whitelist(config, ip_filter_rules, client_ip) # "raise"

\* C22: constant_time_is_equal(a, b) is true exactly when a and b are the same
\* bytes, and on arguments of equal length it combines every byte position,
\* also after a difference; the evaluation of a request builds shared_token_ok
\* in full, one comparison for every configured token whose header is on the
\* request, also for the tokens after a match; and a BasicAuth entry is
\* verified exactly when user name and password are the same bytes.
C22_ConstantTimeComparison ==
    C22_Compared =>
        /\ Len(compared) = Len(ip_filter_rules.shared_tokens)
        /\ \A i \in 1..Len(ip_filter_rules.shared_tokens) :
            LET token == ip_filter_rules.shared_tokens[i]
                present == HasHeader(request.headers, token.HeaderName.v)
                a == Encode(token.Value.v)
                b == Encode(HeaderGet(request.headers, token.HeaderName.v))
            IN  /\ compared[i].called = present
                /\ compared[i].ok = (present /\ a = b)
                /\ (present /\ Len(a) = Len(b)) => compared[i].combined = Len(a)
        /\ \A j \in 1..Len(ip_filter_rules.auth) :
            LET entry == ip_filter_rules.auth[j]
                given == Authorization(request.headers)
            IN  verify_credentials(request, entry)
                    = (/\ given.given
                       /\ Encode(entry.Username.v) = Encode(given.username)
                       /\ Encode(entry.Password.v) = Encode(given.password))

C22_Witness ==
    /\ C22_Compared
    /\ pc = "origin"
    /\ Len(compared) = 2
    /\ compared[1].ok
    /\ compared[2].called
    /\ ~compared[2].ok
    /\ compared[2].combined = 2
    /\ HeaderGet(request.headers, <<"X-CDN-Secret">>) = <<"a", "b">>

\* the request in progress is past its policy fetch with a verdict: it is on
\* its way to the origin, or was answered 401, "ok" or 500
C23_HasVerdict ==
    \/ pc \in {"origin", "stream", "close"}
    \/ origin_calls > 0
    \/ (pc = "done" /\ response.status \in {401, 500})
    \/ (pc = "done" /\ response = Plain("ok"))

\* every profile was fetched, each with one GET, and validated
C23_AllFetched ==
    /\ fetched = Len(config.APPCONFIG_PROFILES)
    /\ agent_calls = Len(config.APPCONFIG_PROFILES)
    /\ Len(agent_docs) = Len(config.APPCONFIG_PROFILES)
    /\ \A i \in 1..Len(agent_docs) : SchemaValid(agent_docs[i].doc)

\* where a request in progress stands, by the calls made for it
C23_PhaseOrder ==
    InRequest =>
        /\ agent_calls > 0 => Classify(config, request) = "enforce"
        /\ Classify(config, request) # "enforce" => (agent_calls = 0 /\ fetched = 0)
        /\ (Classify(config, request) = "enforce" /\ C23_HasVerdict) => C23_AllFetched
        /\ origin_calls > 0 =>
            \/ Classify(config, request) = "bypass"
            \/ /\ Classify(config, request) = "enforce"
               /\ Verdict(config, request, ip_filter_rules, client_ip) = "proxy"
        /\ Classify(config, request) \in {"health", "malformed"} => origin_calls = 0

\* the calls of one step: a GET to the agent is made in the fetch phase, before
\* any request to the origin; a request to the origin is made after it, with
\* no GET in the same step
C23_CallOrder ==
    /\ agent_calls' > agent_calls =>
           (pc = "fetch" /\ origin_calls = 0 /\ origin_calls' = 0 /\ pc' \in {"fetch", "done"})
    /\ origin_calls' > origin_calls =>
           (pc = "origin" /\ agent_calls' = agent_calls)

\* C23: within one request the agent is contacted only when the request was
\* classified as enforced, a verdict exists only once every profile was fetched
\* and validated, and the origin is contacted only after a bypass or an allow
\* verdict; a bypassed request makes no policy fetch.
C23_Phases == []C23_PhaseOrder /\ [][C23_CallOrder]_vars

C23_Witness ==
    /\ pc = "stream"
    /\ Classify(config, request) = "enforce"
    /\ Len(config.APPCONFIG_PROFILES) = 2
    /\ agent_calls = 2
    /\ origin_calls = 1
    /\ ip_filter_rules.auth # <<>>

\* the element of X-Forwarded-For that the index selects is the empty string
C24_EmptyElementSelected ==
    /\ WellFormedRequest
    /\ PyIndex(Split(XForwardedFor, ","),
               config.IP_DETERMINED_BY_X_FORWARDED_FOR_INDEX) = <<<<>>>>

\* C24 as stated: a request whose selected X-Forwarded-For element is the empty
\* string is answered 403 with client IP "Unknown", and neither the agent nor
\* the origin is contacted.
C24_EmptyElementMalformed ==
    C24_EmptyElementSelected =>
        /\ agent_calls = 0
        /\ origin_calls = 0
        /\ pc = "done" => AnsweredAsMalformed

\* the request is enforced, its policy is there, and some BasicAuth entry has
\* exactly its path
C29_OnAuthPath ==
    /\ InRequest
    /\ Classify(config, request) = "enforce"
    /\ fetched = Len(config.APPCONFIG_PROFILES)
    /\ EntriesOnPath # {}

\* C29 as stated: an enforced request whose path is the Path of some BasicAuth
\* entry never reaches the origin, and its response is the 401 challenge, the
\* 200 "ok" page or the 403 page.
C29_AuthPathNeverProxied ==
    C29_OnAuthPath =>
        /\ origin_calls = 0
        /\ pc \in {"fetch", "done"}
        /\ pc = "done" =>
            \/ response = LoginRequired
            \/ response = Plain("ok")
            \/ (response.status = 403 /\ response.page = "access-denied.html")

\* the part of C29 that the code keeps: no such request is sent to the origin
C29_AuthPathOriginUntouched ==
    C29_OnAuthPath => (origin_calls = 0 /\ pc \in {"fetch", "done"})

\* where get_ipfilter_config stands for the request in progress
C30_InOrder ==
    (InRequest /\ Classify(config, request) = "enforce") =>
        /\ fetched <= agent_calls
        /\ agent_calls <= fetched + 1
        /\ agent_calls <= Len(config.APPCONFIG_PROFILES)
        /\ Len(agent_docs) <= agent_calls
        /\ \A i \in 1..Len(agent_docs) :
               agent_docs[i].path = config.APPCONFIG_PROFILES[i]
        /\ \A i \in 1..fetched :
               (i <= Len(agent_docs) /\ SchemaValid(agent_docs[i].doc))
        /\ agent_calls = fetched + 1 => FetchFailed
        /\ FetchFailed =>
            /\ Denied
            /\ agent_calls = fetched + 1
            /\ agent_answer.status = 200 =>
                /\ Len(agent_docs) = fetched + 1
                /\ ~SchemaValid(agent_docs[fetched + 1].doc)
                /\ response.reason = <<>>
            /\ agent_answer.status = 404 =>
                /\ Len(agent_docs) = fetched
                /\ response.reason = <<"AppConfig for ">>
                       \o config.APPCONFIG_PROFILES[fetched + 1] \o <<" not found.">>
            /\ agent_answer.status = 0 =>
                /\ Len(agent_docs) = fetched
                /\ response.reason # <<>>

\* one step of get_ipfilter_config: a GET is for the profile after those
\* handled, and either that profile is handled or the request ends; after a
\* failure no further GET is made for the request
C30_OneProfileAtATime ==
    /\ agent_calls' = agent_calls + 1 =>
        /\ agent_calls = fetched
        /\ \/ (fetched' = fetched + 1 /\ pc' = "fetch")
           \/ (fetched' = fetched /\ pc' = "done")
    /\ FetchFailed => agent_calls' <= agent_calls

\* C30: get_ipfilter_config handles the profiles in the declared order, fetches
\* and then validates each before it touches the next, and stops at the first
\* profile whose fetch or validation fails: no later profile is fetched, and
\* the 403 carries a reason exactly when that first failure is a fetch error.
C30_FirstFailureStops == []C30_InOrder /\ [][C30_OneProfileAtATime]_vars

C30_Witness ==
    /\ FetchFailed
    /\ config.APPCONFIG_PROFILES = <<OtherProfileId, ProfileId>>
    /\ fetched = 0
    /\ agent_calls = 1
    /\ agent_answer.status = 200
    /\ agent_docs[1].path = OtherProfileId
    /\ response.reason = <<>>

\* C27 as stated: over any sequence of requests each conflict warning is
\* emitted one time, not more.
C27_WarningLoggedOnce ==
    /\ warnings.paths <= 1
    /\ warnings.hosts <= 1

\* the request carries X-Forwarded-For and the configured index is in range, so
\* that handle_request gets to line 122
C27_PassesXff(req) ==
    /\ HasHeader(req.headers, <<"X-Forwarded-For">>)
    /\ PyIndex(Split(HeaderGet(req.headers, <<"X-Forwarded-For">>), ","),
               config.IP_DETERMINED_BY_X_FORWARDED_FOR_INDEX) # <<>>

\* what one step adds to the log
C27_StepLogs ==
    LET received == pc = "idle" /\ pc' # "idle"
        passes == received /\ C27_PassesXff(request')
    IN  /\ warnings'.paths = warnings.paths +
               (IF passes /\ config.PUBLIC_PATHS # <<>> /\ config.PROTECTED_PATHS # <<>>
                THEN 1 ELSE 0)
        /\ warnings'.hosts = warnings.hosts +
               (IF passes /\ config.PUB_HOST_LIST # <<>> /\ config.PRIV_HOST_LIST # <<>>
                THEN 1 ELSE 0)

\* C27, amended: with both lists of a pair non-empty the warning of that pair
\* is logged once for every request that passes the X-Forwarded-For checks, and
\* at no other time, so that over n such requests it is emitted n times.
C27_WarningLoggedPerRequest == [][C27_StepLogs]_vars

C27_Witness ==
    /\ pc = "done"
    /\ config.PUBLIC_PATHS # <<>>
    /\ config.PROTECTED_PATHS # <<>>
    /\ config.PUB_HOST_LIST = <<>>
    /\ warnings = [paths |-> 2, hosts |-> 0]
    /\ allowed_before
    /\ Taken = "enforce"

\* C25 as stated: the connections that are checked out at the same time are
\* never more than the capacity of the pool.
C25_OpenConnectionsWithinCapacity == pool.out <= PoolMaxsize

\* C25, amended: the pool keeps at most PoolMaxsize idle connections, and a
\* request that reaches the origin call is never made to wait for one, however
\* many connections are checked out.
C25_PoolKeepsCapacityAndNeverWaits ==
    /\ pool.queued \in 0..PoolMaxsize
    /\ OthersOut(pool, stream) >= 0
    /\ pc = "origin" => ENABLED OriginRequest(PoolOriginAnswers)

\* ten requests hold the ten connections of the pool and a further request has
\* been given one more
C25_Witness ==
    /\ pc = "stream"
    /\ stream.conn = "out"
    /\ OthersOut(pool, stream) = PoolMaxsize
    /\ pool = [queued |-> 0, out |-> PoolMaxsize + 1]

\* the client has stopped in the middle of its upload, and what it sent has
\* been read and passed on
C26_ClientStoppedSending == UploadUnfinished(request) /\ origin_calls > 0

\* C26: once the client has stopped in the middle of its upload, the handler
\* has left the origin call and holds no upstream connection.
C26_UnfinishedUploadReleased ==
    C26_ClientStoppedSending =>
        /\ pc = "done"
        /\ stream.conn # "out"
        /\ pool.out = 0

=============================================================================
